---- MODULE Spec2Model ----
(***************************************************************************)
(* Requirement-aware code generation: the Analyzer / Corrector / Writer    *)
(* loop of src/agent/requirement_codegen.                                  *)
(*                                                                         *)
(* Texts (requirements, code, backend responses) are sequences of          *)
(* one-character strings, so that the regular expressions and the string   *)
(* methods of the source are computed character by character.              *)
(***************************************************************************)
EXTENDS Integers, Sequences, FiniteSets, TLC

----------------------------------------------------------------------------
(* Characters and Python string methods                                    *)

\* \s of the re module, restricted to the characters the texts use
WS == {" ", "\t", "\n"}

\* \w of the re module, restricted to the characters the texts use
WordChars ==
    {"a","b","c","d","e","f","g","h","i","j","k","l","m","n","o","p","q","r",
     "s","t","u","v","w","x","y","z","A","B","C","D","E","F","G","H","I","J",
     "K","L","M","N","O","P","Q","R","S","T","U","V","W","X","Y","Z",
     "0","1","2","3","4","5","6","7","8","9","_"}

MinOf(S) == CHOOSE x \in S : \A y \in S : x <= y

MaxOf(S) == CHOOSE x \in S : \A y \in S : y <= x

\* text[a..b], the empty text when b < a (Python slice text[a-1:b])
Slice(text, a, b) == IF b < a THEN <<>> ELSE SubSeq(text, a, b)

\* first index j >= i whose character is not in S (Len+1 when there is none)
SkipWhile(text, i, S) ==
    MinOf({j \in i..(Len(text) + 1) : j = Len(text) + 1 \/ text[j] \notin S})

\* first index j >= i whose character is in S (Len+1 when there is none)
SkipUntil(text, i, S) ==
    MinOf({j \in i..(Len(text) + 1) : j = Len(text) + 1 \/ text[j] \in S})

\* pat occurs in text at index i
OccursAt(text, i, pat) ==
    /\ i >= 1
    /\ i + Len(pat) - 1 <= Len(text)
    /\ \A k \in 1..Len(pat) : text[i + k - 1] = pat[k]

\* str.find from index i: first index >= i where pat occurs, 0 when none
FindFrom(text, i, pat) ==
    LET hits == {j \in i..(Len(text) + 1) : OccursAt(text, j, pat)}
    IN  IF hits = {} THEN 0 ELSE MinOf(hits)

\* pat in text
Contains(text, pat) == FindFrom(text, 1, pat) # 0

\* str.startswith
StartsWith(text, pat) == OccursAt(text, 1, pat)

\* str.strip()
Strip(text) ==
    LET keep == {j \in 1..Len(text) : text[j] \notin WS}
    IN  IF keep = {} THEN <<>> ELSE SubSeq(text, MinOf(keep), MaxOf(keep))

\* str.replace(' ', '')
RECURSIVE RemoveSpaces(_)
RemoveSpaces(text) ==
    IF text = <<>> THEN <<>>
    ELSE IF Head(text) = " " THEN RemoveSpaces(Tail(text))
         ELSE <<Head(text)>> \o RemoveSpaces(Tail(text))

\* str.lower() on one character
LowerChar(c) ==
    CASE c = "A" -> "a" [] c = "B" -> "b" [] c = "C" -> "c" [] c = "D" -> "d"
      [] c = "E" -> "e" [] c = "F" -> "f" [] c = "G" -> "g" [] c = "H" -> "h"
      [] c = "I" -> "i" [] c = "J" -> "j" [] c = "K" -> "k" [] c = "L" -> "l"
      [] c = "M" -> "m" [] c = "N" -> "n" [] c = "O" -> "o" [] c = "P" -> "p"
      [] c = "Q" -> "q" [] c = "R" -> "r" [] c = "S" -> "s" [] c = "T" -> "t"
      [] c = "U" -> "u" [] c = "V" -> "v" [] c = "W" -> "w" [] c = "X" -> "x"
      [] c = "Y" -> "y" [] c = "Z" -> "z" [] OTHER -> c

\* str.lower()
Lower(text) == [k \in 1..Len(text) |-> LowerChar(text[k])]

\* sep.join(parts)
RECURSIVE Join(_, _)
Join(parts, sep) ==
    IF parts = <<>> THEN <<>>
    ELSE IF Len(parts) = 1 THEN parts[1]
         ELSE parts[1] \o sep \o Join(Tail(parts), sep)

\* str.split(sep) for a one-character separator
RECURSIVE SplitOn(_, _)
SplitOn(text, sep) ==
    LET j == SkipUntil(text, 1, {sep})
    IN  IF j = Len(text) + 1 THEN <<text>>
        ELSE <<Slice(text, 1, j - 1)>> \o SplitOn(Slice(text, j + 1, Len(text)), sep)

----------------------------------------------------------------------------
(* Signature extraction: corrector.py and code_writer.py carry the same    *)
(* _extract_function_signature and _split_params                           *)

DefKeyword == <<"d", "e", "f">>

\* the placeholder function name of the signature checks
CANDIDATE == <<"c", "a", "n", "d", "i", "d", "a", "t", "e">>

NoSignature == [found |-> FALSE, name |-> <<>>, params |-> <<>>]

\* _split_params: split on commas at bracket depth 0
RECURSIVE SplitParamsFrom(_, _, _, _)
SplitParamsFrom(params_str, k, current, bracket_depth) ==
    IF k > Len(params_str)
    THEN IF Strip(current) # <<>> THEN <<Strip(current)>> ELSE <<>>
    ELSE LET char == params_str[k]
         IN  IF char \in {"(", "[", "{"}
             THEN SplitParamsFrom(params_str, k + 1, Append(current, char), bracket_depth + 1)
             ELSE IF char \in {")", "]", "}"}
             THEN SplitParamsFrom(params_str, k + 1, Append(current, char), bracket_depth - 1)
             ELSE IF char = "," /\ bracket_depth = 0
             THEN <<Strip(current)>> \o SplitParamsFrom(params_str, k + 1, <<>>, bracket_depth)
             ELSE SplitParamsFrom(params_str, k + 1, Append(current, char), bracket_depth)

SplitParams(params_str) == SplitParamsFrom(params_str, 1, <<>>, 0)

\* one parameter -> (param_name, param_type); the empty text is "no type"
\* (None and '' are both falsy, and the callers only test truthiness)
ParseParam(param) ==
    IF ":" \in {param[k] : k \in 1..Len(param)}
    THEN LET colon_idx  == SkipUntil(param, 1, {":"})
             after      == Strip(Slice(param, colon_idx + 1, Len(param)))
             param_type == IF "=" \in {after[k] : k \in 1..Len(after)}
                           THEN Strip(SplitOn(after, "=")[1])
                           ELSE after
         IN  [name |-> Strip(Slice(param, 1, colon_idx - 1)), type |-> param_type]
    ELSE [name |-> Strip(SplitOn(param, "=")[1]), type |-> <<>>]

\* the loop over param_parts, skipping the empty parts
RECURSIVE ParseParams(_)
ParseParams(param_parts) ==
    IF param_parts = <<>> THEN <<>>
    ELSE IF Strip(Head(param_parts)) = <<>> THEN ParseParams(Tail(param_parts))
         ELSE <<ParseParam(Strip(Head(param_parts)))>> \o ParseParams(Tail(param_parts))

\* the match of  def\s+(\w+)\s*\(([^)]*)\)  anchored at index i
SigMatchAt(text, i) ==
    IF ~OccursAt(text, i, DefKeyword) THEN [ok |-> FALSE]
    ELSE LET ws1  == i + 3
             nm1  == SkipWhile(text, ws1, WS)
             nm2  == SkipWhile(text, nm1, WordChars)
             par1 == SkipWhile(text, nm2, WS)
             par2 == SkipUntil(text, par1 + 1, {")"})
         IN  IF /\ nm1 > ws1
                /\ nm2 > nm1
                /\ par1 <= Len(text)
                /\ text[par1] = "("
                /\ par2 <= Len(text)
             THEN [ok |-> TRUE, start |-> i, stop |-> par2,
                   name |-> Slice(text, nm1, nm2 - 1),
                   params_str |-> Slice(text, par1 + 1, par2 - 1)]
             ELSE [ok |-> FALSE]

\* re.search(pattern, text): the leftmost match, 0 when there is none
SigSearch(text) ==
    LET hits == {i \in 1..Len(text) : SigMatchAt(text, i).ok}
    IN  IF hits = {} THEN 0 ELSE MinOf(hits)

\* the params list built from match.group(2).strip()
ParamsOf(params_str) ==
    IF params_str = <<>> THEN <<>> ELSE ParseParams(SplitParams(params_str))

\* (func_name, params) of the match found at index i, (None, []) when i = 0
SignatureAt(text, i) ==
    IF i = 0 THEN NoSignature
    ELSE [found |-> TRUE, name |-> SigMatchAt(text, i).name,
          params |-> ParamsOf(Strip(SigMatchAt(text, i).params_str))]

\* _extract_function_signature
ExtractFunctionSignature(text) == SignatureAt(text, SigSearch(text))

----------------------------------------------------------------------------
(* Signature checks                                                        *)

SigOk == [ok |-> TRUE, reason |-> "none"]

\* the first parameter position (1-based) at which both sides declare a type
\* and the types differ after str.replace(' ', ''); 0 when there is none
FirstTypeMismatch(a_params, b_params) ==
    LET n    == IF Len(a_params) < Len(b_params) THEN Len(a_params) ELSE Len(b_params)
        hits == {i \in 1..n :
                    /\ a_params[i].type # <<>>
                    /\ b_params[i].type # <<>>
                    /\ RemoveSpaces(a_params[i].type) # RemoveSpaces(b_params[i].type)}
    IN  IF hits = {} THEN 0 ELSE MinOf(hits)

\* CorrectorCompareSignatures as it would be without the loop over the types
CorrectorCompareNamesAndCounts(orig, impr) ==
    IF ~orig.found THEN SigOk
    ELSE IF ~impr.found THEN SigOk
    ELSE IF orig.name # impr.name /\ orig.name # CANDIDATE /\ impr.name # CANDIDATE
    THEN [ok |-> FALSE, reason |-> "name"]
    ELSE IF Len(orig.params) # Len(impr.params)
    THEN [ok |-> FALSE, reason |-> "count"]
    ELSE SigOk

\* the checks of RequirementCorrector._validate_signature_preserved on the
\* two extracted signatures
CorrectorCompareSignatures(orig, impr) ==
    IF ~orig.found THEN SigOk
    ELSE IF ~impr.found THEN SigOk
    ELSE IF orig.name # impr.name /\ orig.name # CANDIDATE /\ impr.name # CANDIDATE
    THEN [ok |-> FALSE, reason |-> "name"]
    ELSE IF Len(orig.params) # Len(impr.params)
    THEN [ok |-> FALSE, reason |-> "count"]
    ELSE IF FirstTypeMismatch(orig.params, impr.params) # 0
    THEN [ok |-> FALSE, reason |-> "type"]
    ELSE SigOk

\* RequirementCorrector._validate_signature_preserved
CorrectorValidateSignaturePreserved(original, improved) ==
    CorrectorCompareSignatures(ExtractFunctionSignature(original),
                               ExtractFunctionSignature(improved))

\* the checks of RequirementCodeWriter._validate_signature_preserved on the
\* two extracted signatures
WriterCompareSignatures(req, cod) ==
    IF ~req.found \/ ~cod.found THEN SigOk
    ELSE IF Len(req.params) # Len(cod.params)
    THEN [ok |-> FALSE, reason |-> "count"]
    ELSE IF FirstTypeMismatch(req.params, cod.params) # 0
    THEN [ok |-> FALSE, reason |-> "type"]
    ELSE SigOk

\* RequirementCodeWriter._validate_signature_preserved
WriterValidateSignaturePreserved(requirement, code) ==
    WriterCompareSignatures(ExtractFunctionSignature(requirement),
                            ExtractFunctionSignature(code))

----------------------------------------------------------------------------
(* RequirementCodeWriter._fix_signature_in_code                            *)

ARROW == <<"-", ">">>

\* param_strs: the code's parameter names with the requirement's type when it
\* declares one, else the code's own
FixedParamStrs(req_params, code_params) ==
    [i \in 1..Len(code_params) |->
        LET ptype == IF req_params[i].type # <<>> THEN req_params[i].type
                     ELSE code_params[i].type
        IN  IF ptype # <<>> THEN code_params[i].name \o <<":", " ">> \o ptype
            ELSE code_params[i].name]

\* re.search(r'\)\s*->\s*([^:]+):', requirement).group(1).strip(), the empty
\* text when there is no match
RequirementReturnType(requirement) ==
    LET MatchAt(i) ==
            /\ requirement[i] = ")"
            /\ LET a == SkipWhile(requirement, i + 1, WS)
               IN  /\ OccursAt(requirement, a, ARROW)
                   /\ LET c == SkipUntil(requirement, a + 2, {":"})
                      IN  c <= Len(requirement) /\ c > a + 2
        hits == {i \in 1..Len(requirement) : MatchAt(i)}
    IN  IF hits = {} THEN <<>>
        ELSE LET a == SkipWhile(requirement, MinOf(hits) + 1, WS)
                 c == SkipUntil(requirement, a + 2, {":"})
             IN  Strip(Slice(requirement, a + 2, c - 1))

\* the match of  def\s+<code_name>\s*\([^)]*\)(\s*->[^:]+)?:  anchored at i:
\* the index of its last character, 0 when it does not match
CodeDefMatchEnd(code, code_name, i) ==
    IF ~OccursAt(code, i, DefKeyword) THEN 0
    ELSE LET n1 == SkipWhile(code, i + 3, WS)
             n2 == n1 + Len(code_name)
             p1 == SkipWhile(code, n2, WS)
             p2 == SkipUntil(code, p1 + 1, {")"})
             q  == p2 + 1
             r  == SkipWhile(code, q, WS)
             c  == SkipUntil(code, r + 2, {":"})
         IN  IF ~(/\ n1 > i + 3
                  /\ OccursAt(code, n1, code_name)
                  /\ p1 <= Len(code)
                  /\ code[p1] = "("
                  /\ p2 <= Len(code))
             THEN 0
             ELSE IF OccursAt(code, r, ARROW) /\ c <= Len(code) /\ c > r + 2
             THEN c
             ELSE IF q <= Len(code) /\ code[q] = ":"
             THEN q
             ELSE 0

\* re.sub(r'\b<code_name>\s*\(', '<req_name>(', code) from index i on
RECURSIVE RenameCalls(_, _, _, _)
RenameCalls(code, code_name, req_name, i) ==
    IF i > Len(code) THEN <<>>
    ELSE LET e == SkipWhile(code, i + Len(code_name), WS)
         IN  IF /\ (i = 1 \/ code[i - 1] \notin WordChars)
                /\ OccursAt(code, i, code_name)
                /\ e <= Len(code)
                /\ code[e] = "("
             THEN req_name \o <<"(">> \o RenameCalls(code, code_name, req_name, e + 1)
             ELSE <<code[i]>> \o RenameCalls(code, code_name, req_name, i + 1)

NoFix == [some |-> FALSE, code |-> <<>>]

\* new_def: the header built from the requirement's name and return type
NewDef(req_name, new_params, return_type) ==
    IF return_type # <<>>
    THEN DefKeyword \o <<" ">> \o req_name \o <<"(">> \o new_params
         \o <<")", " ", "-", ">", " ">> \o return_type \o <<":">>
    ELSE DefKeyword \o <<" ">> \o req_name \o <<"(">> \o new_params \o <<")", ":">>

\* re.sub(code_def_pattern, new_def, code, count=1): the code itself when the
\* pattern matches nowhere
SubstituteDef(code, code_name, new_def) ==
    LET hits == {i \in 1..Len(code) : CodeDefMatchEnd(code, code_name, i) # 0}
    IN  IF hits = {} THEN code
        ELSE Slice(code, 1, MinOf(hits) - 1) \o new_def
             \o Slice(code, CodeDefMatchEnd(code, code_name, MinOf(hits)) + 1, Len(code))

\* "Also replace function calls if name changed"
RenameIfChanged(fixed_code, code_name, req_name) ==
    IF req_name # code_name /\ req_name # CANDIDATE
    THEN RenameCalls(fixed_code, code_name, req_name, 1)
    ELSE fixed_code

\* _fix_signature_in_code after the two signatures are extracted
FixWithSignatures(requirement, code, req, cod) ==
    IF ~req.found \/ ~cod.found THEN NoFix
    ELSE IF Len(req.params) # Len(cod.params) THEN NoFix
    ELSE [some |-> TRUE,
          code |-> RenameIfChanged(
                       SubstituteDef(code, cod.name,
                                     NewDef(req.name,
                                            Join(FixedParamStrs(req.params, cod.params),
                                                 <<",", " ">>),
                                            RequirementReturnType(requirement))),
                       cod.name, req.name)]

\* _fix_signature_in_code: None, or the code with its header rewritten
FixSignatureInCode(requirement, code) ==
    FixWithSignatures(requirement, code, ExtractFunctionSignature(requirement),
                      ExtractFunctionSignature(code))

----------------------------------------------------------------------------
(* RequirementCodeWriter._extract_code_multilayer and its six methods      *)

\* the backquote character; it is written "~" because the TLA+ lexer does not
\* accept a backquote inside a string, and no text of the model uses a tilde
BACKQUOTE == "~"

\* the Markdown fence, three backquotes
FENCE == <<BACKQUOTE, BACKQUOTE, BACKQUOTE>>

DEF_SP == <<"d", "e", "f", " ">>

IMPORT_SP == <<"i", "m", "p", "o", "r", "t", " ">>

CLASS_SP == <<"c", "l", "a", "s", "s", " ">>

FROM_SP == <<"f", "r", "o", "m", " ">>

CLOSE_PREFIX == <<"<", "/">>

\* the index after the last "\n" of text[a..b-1], 0 when it holds none
AfterLastNewline(text, a, b) ==
    LET nls == {j \in a..(b - 1) : text[j] = "\n"}
    IN  IF nls = {} THEN 0 ELSE MaxOf(nls) + 1

\* a fence opening at i whose info string ends at index w1 - 1: the group of
\*   FENCE <info>\s*\n(.*?)FENCE    as [ok, code |-> group(1).strip()]
FenceGroup(text, w1) ==
    LET w2 == SkipWhile(text, w1, WS)
        g  == AfterLastNewline(text, w1, w2)
        cl == FindFrom(text, g, FENCE)
    IN  IF g # 0 /\ cl # 0
        THEN [ok |-> TRUE, code |-> Strip(Slice(text, g, cl - 1))]
        ELSE [ok |-> FALSE, code |-> <<>>]

\* FENCE [pP]ython\s*\n(.*?)FENCE   anchored at i
PythonFenceAt(text, i) ==
    IF /\ OccursAt(text, i, FENCE)
       /\ i + 3 <= Len(text)
       /\ text[i + 3] \in {"p", "P"}
       /\ OccursAt(text, i + 4, <<"y", "t", "h", "o", "n">>)
    THEN FenceGroup(text, i + 9)
    ELSE [ok |-> FALSE, code |-> <<>>]

\* _try_extract_markdown_python
TryExtractMarkdownPython(response) ==
    LET hits == {i \in 1..Len(response) : PythonFenceAt(response, i).ok}
    IN  IF hits = {} THEN <<>> ELSE PythonFenceAt(response, MinOf(hits)).code

\* FENCE (?:\w*)\s*\n(.*?)FENCE   anchored at i
AnyFenceAt(text, i) ==
    IF OccursAt(text, i, FENCE)
    THEN FenceGroup(text, SkipWhile(text, i + 3, WordChars))
    ELSE [ok |-> FALSE, code |-> <<>>]

\* 'def ' in code or 'import ' in code or 'class ' in code
LooksLikePython(code) ==
    Contains(code, DEF_SP) \/ Contains(code, IMPORT_SP) \/ Contains(code, CLASS_SP)

\* _try_extract_markdown_any
TryExtractMarkdownAny(response) ==
    LET hits == {i \in 1..Len(response) : AnyFenceAt(response, i).ok}
    IN  IF hits = {} THEN <<>>
        ELSE LET code == AnyFenceAt(response, MinOf(hits)).code
             IN  IF LooksLikePython(code) THEN code ELSE <<>>

CODE_OPEN == <<"<", "c", "o", "d", "e", ">">>

CODE_CLOSE == <<"<", "/", "c", "o", "d", "e", ">">>

\* _try_extract_simple_tags:  <[cC][oO][dD][eE]>\s*(.*?)\s*</[cC][oO][dD][eE]>
TryExtractSimpleTags(response) ==
    LET lower == Lower(response)
        hits  == {i \in 1..Len(response) :
                     /\ OccursAt(lower, i, CODE_OPEN)
                     /\ FindFrom(lower, i + 6, CODE_CLOSE) # 0}
    IN  IF hits = {} THEN <<>>
        ELSE LET i == MinOf(hits)
             IN  Strip(Slice(response, i + 6, FindFrom(lower, i + 6, CODE_CLOSE) - 1))

DELIVERABLE_OPEN ==
    <<"<", "c", "o", "d", "e", "_", "d", "e", "l", "i", "v", "e", "r", "a", "b", "l", "e", ">">>

DELIVERABLE_CLOSE ==
    <<"<", "/", "c", "o", "d", "e", "_", "d", "e", "l", "i", "v", "e", "r", "a", "b", "l", "e", ">">>

\* the json_blob of _try_extract_legacy_json before the fence is removed
LegacyJsonBlob(response) ==
    LET lower == Lower(response)
    IN  IF Contains(lower, DELIVERABLE_OPEN) /\ Contains(lower, DELIVERABLE_CLOSE)
        THEN Strip(Slice(response,
                         FindFrom(lower, 1, DELIVERABLE_OPEN) + Len(DELIVERABLE_OPEN),
                         FindFrom(lower, 1, DELIVERABLE_CLOSE) - 1))
        ELSE Strip(response)

\* "Remove markdown code blocks if present"
StripWrappingFence(json_blob) ==
    IF ~StartsWith(json_blob, FENCE) THEN json_blob
    ELSE LET lines0 == SplitOn(json_blob, "\n")
             lines1 == IF StartsWith(Strip(lines0[1]), FENCE) THEN Tail(lines0) ELSE lines0
             lines2 == IF lines1 # <<>> /\ Strip(lines1[Len(lines1)]) = FENCE
                       THEN SubSeq(lines1, 1, Len(lines1) - 1)
                       ELSE lines1
         IN  Strip(Join(lines2, <<"\n">>))

\* re.sub(r',(\s*[}\]])', r'\1', json_blob)
RECURSIVE DropTrailingCommas(_, _)
DropTrailingCommas(json_blob, i) ==
    LET Closes(e) == e <= Len(json_blob) /\ json_blob[e] \in {"}", "]"}
        commas == {j \in i..Len(json_blob) :
                      /\ json_blob[j] = ","
                      /\ Closes(SkipWhile(json_blob, j + 1, WS))}
    IN  IF commas = {} THEN Slice(json_blob, i, Len(json_blob))
        ELSE Slice(json_blob, i, MinOf(commas) - 1)
                 \o DropTrailingCommas(json_blob, MinOf(commas) + 1)

CODE_KEY == <<"\"", "c", "o", "d", "e", "\"">>

\* json.loads(json_blob) followed by data["code"], for the JSON documents the
\* responses of this model contain: an object with the single member "code"
\* whose value is a string without escapes.  Any other blob of the model is
\* either not JSON or has no "code" member, and yields ok = FALSE.
JsonCodeMember(json_blob) ==
    LET none == [ok |-> FALSE, value |-> <<>>]
        k1   == SkipWhile(json_blob, 2, WS)
        c1   == SkipWhile(json_blob, k1 + Len(CODE_KEY), WS)
        v1   == SkipWhile(json_blob, c1 + 1, WS)
        v2   == SkipUntil(json_blob, v1 + 1, {"\"", "\n", "\t"})
        b1   == SkipWhile(json_blob, v2 + 1, WS)
    IN  IF json_blob = <<>> \/ json_blob[1] # "{" THEN none
        ELSE IF ~OccursAt(json_blob, k1, CODE_KEY) THEN none
        ELSE IF c1 > Len(json_blob) \/ json_blob[c1] # ":" THEN none
        ELSE IF v1 > Len(json_blob) \/ json_blob[v1] # "\"" THEN none
        ELSE IF v2 > Len(json_blob) \/ json_blob[v2] # "\"" THEN none
        ELSE IF b1 # Len(json_blob) \/ json_blob[b1] # "}" THEN none
        ELSE [ok |-> TRUE, value |-> Slice(json_blob, v1 + 1, v2 - 1)]

\* _try_extract_legacy_json
TryExtractLegacyJson(response) ==
    LET data == JsonCodeMember(
                    DropTrailingCommas(StripWrappingFence(LegacyJsonBlob(response)), 1))
    IN  IF data.ok THEN Strip(data.value) ELSE <<>>

\* the lines from index start on, up to the first one whose stripped text
\* is in the set of stopping lines (the break of the collecting loops)
LinesUntil(lines, start, stops) ==
    LET later == {i \in stops : i >= start}
    IN  SubSeq(lines, start, IF later = {} THEN Len(lines) ELSE MinOf(later) - 1)

\* _try_extract_function_definition
TryExtractFunctionDefinition(response) ==
    LET lines  == SplitOn(response, "\n")
        Start(stripped) == \/ StartsWith(stripped, FROM_SP)
                           \/ StartsWith(stripped, IMPORT_SP)
                           \/ StartsWith(stripped, DEF_SP)
        Stop(stripped)  == stripped = FENCE \/ StartsWith(stripped, CLOSE_PREFIX)
        starts == {i \in 1..Len(lines) : Start(Strip(lines[i]))}
    IN  IF starts = {} THEN <<>>
        ELSE LET stops == {i \in 1..Len(lines) : Stop(Strip(lines[i]))}
                 code  == Strip(Join(LinesUntil(lines, MinOf(starts), stops), <<"\n">>))
             IN  IF Contains(code, DEF_SP) THEN code ELSE <<>>

\* _try_extract_any_code
TryExtractAnyCode(response) ==
    LET lines  == SplitOn(response, "\n")
        Start(stripped) == \/ StartsWith(stripped, DEF_SP)
                           \/ StartsWith(stripped, CLASS_SP)
                           \/ StartsWith(stripped, IMPORT_SP)
                           \/ StartsWith(stripped, FROM_SP)
                           \/ StartsWith(stripped, <<"@">>)
        Stop(stripped)  == \/ StartsWith(stripped, <<"#">>) /\ ~StartsWith(stripped, <<"#", " ">>)
                           \/ StartsWith(stripped, FENCE)
                           \/ StartsWith(stripped, CLOSE_PREFIX)
        starts == {i \in 1..Len(lines) : Start(Strip(lines[i]))}
    IN  IF starts = {} THEN <<>>
        ELSE LET stops == {i \in 1..Len(lines) : Stop(Strip(lines[i]))}
                 code  == Strip(Join(LinesUntil(lines, MinOf(starts), stops), <<"\n">>))
             IN  IF Contains(code, DEF_SP) THEN code ELSE <<>>

\* the method names of _extract_code_multilayer, in the order it tries them
ExtractionMethods ==
    <<"markdown_python", "markdown_any", "simple_tags", "legacy_json",
      "function_definition", "any_code">>

\* (code, method) of the first method whose text is not empty, ("", "none")
\* when every text is empty
FirstExtracted(codes) ==
    LET hits == {k \in 1..Len(codes) : codes[k] # <<>>}
    IN  IF hits = {} THEN [code |-> <<>>, method |-> "none"]
        ELSE [code |-> codes[MinOf(hits)], method |-> ExtractionMethods[MinOf(hits)]]

\* ExtractCodeMultilayer as it would be if any fence were tried before the
\* fence labelled python
ExtractCodeAnyFenceFirst(response) ==
    LET any == TryExtractMarkdownAny(response)
    IN  IF any # <<>> THEN [code |-> any, method |-> "markdown_any"]
        ELSE FirstExtracted(<<TryExtractMarkdownPython(response),
                              TryExtractMarkdownAny(response),
                              TryExtractSimpleTags(response),
                              TryExtractLegacyJson(response),
                              TryExtractFunctionDefinition(response),
                              TryExtractAnyCode(response)>>)

\* _extract_code_multilayer
ExtractCodeMultilayer(response) ==
    FirstExtracted(<<TryExtractMarkdownPython(response),
                     TryExtractMarkdownAny(response),
                     TryExtractSimpleTags(response),
                     TryExtractLegacyJson(response),
                     TryExtractFunctionDefinition(response),
                     TryExtractAnyCode(response)>>)

----------------------------------------------------------------------------
(* JSON documents of the backend.  The Analyzer and the Corrector read the  *)
(* backend text through _extract_json_block and json.loads; a response of   *)
(* these two roles is modelled by what that reading yields:                 *)
(*   json = "invalid"  json.loads raises (ValueError / JSONDecodeError)      *)
(*   json = "nondict"  a JSON document that is not an object                *)
(*   json = "dict"     an object, with the members given in the record      *)
(* A member is a text, ABSENT (no such key) or NULL (JSON null, None).      *)

ABSENT == <<"absent">>

NULL == <<"null">>

\* bool(v) of a member read with dict.get(key): None and '' are falsy
Truthy(v) == v # ABSENT /\ v # NULL /\ v # <<>>

\* a or b, on members read with dict.get(key)
PyOr(a, b) == IF Truthy(a) THEN a ELSE IF b = ABSENT THEN NULL ELSE b

----------------------------------------------------------------------------
(* RequirementAnalyzer                                                     *)

AMBIGUITY == <<"a", "m", "b", "i", "g", "u", "i", "t", "y">>

INCONSISTENCY == <<"i", "n", "c", "o", "n", "s", "i", "s", "t", "e", "n", "c", "y">>

INCOMPLETENESS == <<"i", "n", "c", "o", "m", "p", "l", "e", "t", "e", "n", "e", "s", "s">>

CONFLICT == <<"c", "o", "n", "f", "l", "i", "c", "t">>

MISSING_CONTEXT == <<"m", "i", "s", "s", "i", "n", "g", "_", "c", "o", "n", "t", "e", "x", "t">>

UNDERSPECIFIED == <<"u", "n", "d", "e", "r", "s", "p", "e", "c", "i", "f", "i", "e", "d">>

BOUNDARY == <<"b", "o", "u", "n", "d", "a", "r", "y">>

LOW == <<"l", "o", "w">>

MEDIUM == <<"m", "e", "d", "i", "u", "m">>

HIGH == <<"h", "i", "g", "h">>

CRITICAL == <<"c", "r", "i", "t", "i", "c", "a", "l">>

\* _sanitize_issue_type
SanitizeIssueType(raw_type) ==
    LET normalized == Lower(Strip(IF Truthy(raw_type) THEN raw_type ELSE <<>>))
    IN  IF normalized \in {AMBIGUITY, INCONSISTENCY, INCOMPLETENESS, CONFLICT,
                           MISSING_CONTEXT, UNDERSPECIFIED, BOUNDARY}
        THEN normalized ELSE AMBIGUITY

\* SanitizeSeverity as it would be without the mapping of critical to high
SanitizeSeverityKeepingCritical(raw_severity) ==
    LET normalized == Lower(Strip(IF Truthy(raw_severity) THEN raw_severity ELSE <<>>))
    IN  IF normalized \in {LOW, MEDIUM, HIGH, CRITICAL} THEN normalized
        ELSE MEDIUM

\* _sanitize_severity
SanitizeSeverity(raw_severity) ==
    LET normalized == Lower(Strip(IF Truthy(raw_severity) THEN raw_severity ELSE <<>>))
    IN  IF normalized = CRITICAL THEN HIGH
        ELSE IF normalized \in {LOW, MEDIUM, HIGH, CRITICAL} THEN normalized
        ELSE MEDIUM

\* the RequirementIssue built from one entry of data["issues"]
\* (clarifying_questions of the entries is a list of texts, empty when absent)
IssueOfItem(item) ==
    [issue_type  |-> SanitizeIssueType(PyOr(item.issue_type, item.type)),
     description |-> Strip(item.description),
     evidence    |-> PyOr(item.evidence, item.location),
     severity    |-> SanitizeSeverity(item.severity),
     clarifying_questions |->
         IF item.clarifying_questions = <<>> /\ Truthy(item.suggestion)
         THEN <<item.suggestion>>
         ELSE item.clarifying_questions]

\* the loop over data.get("issues", []): entries without description are skipped
RECURSIVE ParseIssues(_)
ParseIssues(items) ==
    IF items = <<>> THEN <<>>
    ELSE IF ~Truthy(Head(items).description) THEN ParseIssues(Tail(items))
         ELSE <<IssueOfItem(Head(items))>> \o ParseIssues(Tail(items))

\* RequirementIssue.as_dict
AsDict(issue) ==
    [issue_type  |-> issue.issue_type,
     description |-> issue.description,
     evidence    |-> issue.evidence,
     severity    |-> issue.severity,
     clarifying_questions |-> issue.clarifying_questions]

Raised(error) == [raised |-> TRUE, error |-> error, out |-> <<>>]

Returned(out) == [raised |-> FALSE, error |-> "", out |-> <<out>>]

NEEDS_CORRECTION ==
    <<"n", "e", "e", "d", "s", "_", "c", "o", "r", "r", "e", "c", "t", "i", "o", "n">>

NEEDS_CLARIFICATION ==
    <<"n", "e", "e", "d", "s", "_", "c", "l", "a", "r", "i", "f", "i", "c", "a", "t", "i", "o", "n">>

READY == <<"r", "e", "a", "d", "y">>

\* raw_decision: data.get("decision", "ready").lower(), with needs_correction
\* read as needs_clarification
RawDecision(decision) ==
    IF Lower(IF decision = ABSENT THEN READY ELSE decision) = NEEDS_CORRECTION
    THEN NEEDS_CLARIFICATION
    ELSE Lower(IF decision = ABSENT THEN READY ELSE decision)

\* Decision as it would be if the backend's own decision were kept
DecisionOfBackend(raw_decision, issues) ==
    IF raw_decision = NEEDS_CLARIFICATION THEN "needs_clarification" ELSE "ready"

\* "Determine decision based on issues": raw_decision only reaches the log
Decision(raw_decision, issues) ==
    IF issues # <<>> THEN "needs_clarification" ELSE "ready"

\* RequirementAnalyzer._parse_response: the AnalyzerOutput, or the exception
\* that leaves it
AnalyzerParseResponse(response, fallback_requirement) ==
    IF response.json = "invalid"
    THEN Returned([normalized_requirement |-> fallback_requirement,
                   issues    |-> <<>>,
                   reasoning |-> "Failed to parse analyzer response; defaulting to original requirement.",
                   decision  |-> "ready",
                   raw_json  |-> response.raw,
                   original_function_signature |-> <<>>])
    ELSE IF response.json = "nondict"
    THEN Raised("AttributeError")     \* data.get on a list, a string, a number
    ELSE IF response.decision = NULL
    THEN Raised("AttributeError")     \* None.lower()
    ELSE IF response.normalized_requirement = NULL
            \/ response.original_function_signature = NULL
    THEN Raised("AttributeError")     \* None.strip()
    ELSE Returned(
        [normalized_requirement |->
             IF response.normalized_requirement = ABSENT
             THEN Strip(fallback_requirement)
             ELSE Strip(response.normalized_requirement),
         issues    |-> ParseIssues(response.issues),
         reasoning |-> "",
         decision  |-> Decision(RawDecision(response.decision),
                                ParseIssues(response.issues)),
         raw_json  |-> response.raw,
         original_function_signature |->
             IF response.original_function_signature = ABSENT THEN <<>>
             ELSE Strip(response.original_function_signature)])

\* RequirementAnalyzer.process: the backend's response parsed with the
\* requirement as fallback (history only enters the prompt)
AnalyzerProcess(requirement, history_arg, response) ==
    AnalyzerParseResponse(response, requirement)

----------------------------------------------------------------------------
(* RequirementCorrector                                                    *)

Fix(kind, reason, text) == [kind |-> kind, reason |-> reason, text |-> text]

\* "Failed to parse correction output; returning original requirement."
ParseFailedFix == Fix("parse_failed", "none", <<>>)

\* f"Signature validation failed: {error_msg}. Reverted to original."
RejectedFix(reason) == Fix("signature_rejected", reason, <<>>)

\* [x.strip() for x in xs if x]
RECURSIVE StripTruthy(_)
StripTruthy(xs) ==
    IF xs = <<>> THEN <<>>
    ELSE IF Head(xs) = <<>> THEN StripTruthy(Tail(xs))
         ELSE <<Strip(Head(xs))>> \o StripTruthy(Tail(xs))

\* the applied_fixes list of an accepted correction
BackendFixes(texts) == [k \in 1..Len(texts) |-> Fix("backend", "none", texts[k])]

\* CorrectorChecked as it would be if a rejected revision were still returned
CorrectorCheckedKeepingRevision(response, fallback_requirement, improved_requirement, check) ==
    IF ~check.ok
    THEN Returned([improved_requirement |-> improved_requirement,
                   applied_fixes  |-> <<RejectedFix(check.reason)>>,
                   open_questions |-> <<>>,
                   raw_json       |-> "",
                   original_function_signature |-> <<>>])
    ELSE IF response.original_function_signature = NULL
    THEN Raised("AttributeError")
    ELSE Returned(
        [improved_requirement |-> improved_requirement,
         applied_fixes  |-> BackendFixes(StripTruthy(response.applied_fixes)),
         open_questions |-> StripTruthy(response.open_questions),
         raw_json       |-> response.raw,
         original_function_signature |->
             IF response.original_function_signature = ABSENT THEN <<>>
             ELSE Strip(response.original_function_signature)])

\* _parse_response from the signature check on: improved_requirement is the
\* stripped text of the document, check the outcome of the signature check
CorrectorChecked(response, fallback_requirement, improved_requirement, check) ==
    IF ~check.ok
    THEN Returned([improved_requirement |-> fallback_requirement,
                   applied_fixes  |-> <<RejectedFix(check.reason)>>,
                   open_questions |-> <<>>,
                   raw_json       |-> "",
                   original_function_signature |-> <<>>])
    ELSE IF response.original_function_signature = NULL
    THEN Raised("AttributeError")     \* None.strip()
    ELSE Returned(
        [improved_requirement |-> improved_requirement,
         applied_fixes  |-> BackendFixes(StripTruthy(response.applied_fixes)),
         open_questions |-> StripTruthy(response.open_questions),
         raw_json       |-> response.raw,
         original_function_signature |->
             IF response.original_function_signature = ABSENT THEN <<>>
             ELSE Strip(response.original_function_signature)])

\* data.get("improved_requirement", fallback_requirement).strip()
ImprovedRequirement(response, fallback_requirement) ==
    IF response.improved_requirement = ABSENT
    THEN Strip(fallback_requirement)
    ELSE Strip(response.improved_requirement)

\* _parse_response once improved_requirement is read from the document
CorrectorValidated(response, fallback_requirement, improved_requirement) ==
    CorrectorChecked(response, fallback_requirement, improved_requirement,
                     CorrectorValidateSignaturePreserved(fallback_requirement,
                                                         improved_requirement))

\* RequirementCorrector._parse_response
CorrectorParseResponse(response, fallback_requirement) ==
    IF response.json = "invalid"
    THEN Returned([improved_requirement |-> fallback_requirement,
                   applied_fixes  |-> <<ParseFailedFix>>,
                   open_questions |-> <<>>,
                   raw_json       |-> response.raw,
                   original_function_signature |-> <<>>])
    ELSE IF response.json = "nondict"
    THEN Raised("AttributeError")     \* data.get on a list, a string, a number
    ELSE IF response.improved_requirement = NULL
    THEN Raised("AttributeError")     \* None.strip()
    ELSE CorrectorValidated(response, fallback_requirement,
                            ImprovedRequirement(response, fallback_requirement))

\* RequirementCorrector.process (issues and the signature only enter the prompt)
CorrectorProcess(requirement, issues, signature, response) ==
    CorrectorParseResponse(response, requirement)

----------------------------------------------------------------------------
(* RequirementCodeWriter                                                   *)

\* PreferFixed as it would be if code that cannot be fixed were dropped
PreferFixedOrNothing(fixed_code, code) ==
    IF fixed_code.some /\ fixed_code.code # <<>> THEN fixed_code.code ELSE <<>>

\* "if fixed_code: code = fixed_code"
PreferFixed(fixed_code, code) ==
    IF fixed_code.some /\ fixed_code.code # <<>> THEN fixed_code.code ELSE code

\* the code of _parse_response after the signature check and the auto-fix
ValidatedCode(requirement, code) ==
    IF code = <<>> THEN code
    ELSE IF WriterValidateSignaturePreserved(requirement, code).ok THEN code
    ELSE PreferFixed(FixSignatureInCode(requirement, code), code)

\* WriterOutput as it would be without the note for an empty code
WriterOutputWithoutNote(requirement, code) ==
    Returned([finalized_requirement |-> requirement,
              code        |-> code,
              tests       |-> <<>>,
              assumptions |-> <<>>,
              trace       |-> <<>>,
              correction_iterations |-> 0])

\* the CodeGenerationOutput _parse_response builds around the code
WriterOutput(requirement, code) ==
    Returned([finalized_requirement |-> requirement,
              code        |-> code,
              tests       |-> <<>>,
              assumptions |-> IF code # <<>> THEN <<>>
                              ELSE <<"Failed to extract code from response">>,
              trace       |-> <<>>,
              correction_iterations |-> 0])

\* RequirementCodeWriter._parse_response
WriterParseResponse(response, requirement) ==
    WriterOutput(requirement, ValidatedCode(requirement, ExtractCodeMultilayer(response).code))

\* RequirementCodeWriter.process (analysis, metadata and the signature only
\* enter the prompt)
WriterProcess(finalized_requirement, signature, response) ==
    WriterParseResponse(response, finalized_requirement)

----------------------------------------------------------------------------
(* The texts of the model                                                  *)

\* def f(a: int)
ReqFInt ==
    <<"d", "e", "f", " ", "f", "(", "a", ":", " ", "i", "n", "t", ")">>

\*  def f(a: int)\n
ReqFIntPadded ==
    <<" ", "d", "e", "f", " ", "f", "(", "a", ":", " ", "i", "n", "t", ")",
      "\n">>

\* def f(a: int) -> int: add 1
ReqFIntDoc ==
    <<"d", "e", "f", " ", "f", "(", "a", ":", " ", "i", "n", "t", ")", " ",
      "-", ">", " ", "i", "n", "t", ":", " ", "a", "d", "d", " ", "1">>

\* def f(a: str)
ReqFStr ==
    <<"d", "e", "f", " ", "f", "(", "a", ":", " ", "s", "t", "r", ")">>

\* def f(a: int, b)
ReqFTwo ==
    <<"d", "e", "f", " ", "f", "(", "a", ":", " ", "i", "n", "t", ",", " ",
      "b", ")">>

\* def g(a: int)
ReqGInt ==
    <<"d", "e", "f", " ", "g", "(", "a", ":", " ", "i", "n", "t", ")">>

\* def candidate(a: int)
ReqCandInt ==
    <<"d", "e", "f", " ", "c", "a", "n", "d", "i", "d", "a", "t", "e", "(",
      "a", ":", " ", "i", "n", "t", ")">>

\* def f(a)
ReqFAny == <<"d", "e", "f", " ", "f", "(", "a", ")">>

\* def f(a: List[int, str], b: int)
ReqFList ==
    <<"d", "e", "f", " ", "f", "(", "a", ":", " ", "L", "i", "s", "t", "[",
      "i", "n", "t", ",", " ", "s", "t", "r", "]", ",", " ", "b", ":", " ",
      "i", "n", "t", ")">>

\* def f(a: List[int,\tstr], b: int): a tab where ReqFList has a space
ReqFListTab ==
    <<"d", "e", "f", " ", "f", "(", "a", ":", " ", "L", "i", "s", "t", "[",
      "i", "n", "t", ",", "\t", "s", "t", "r", "]", ",", " ", "b", ":", " ",
      "i", "n", "t", ")">>

\* def f(a: Tuple[(int, str)], b: int): a container type written with a
\* parenthesized argument list
ReqFTupleParen ==
    <<"d", "e", "f", " ", "f", "(", "a", ":", " ", "T", "u", "p", "l", "e", "[",
      "(", "i", "n", "t", ",", " ", "s", "t", "r", ")", "]", ",", " ", "b", ":",
      " ", "i", "n", "t", ")">>

\* def f(a: List[int,str], b: int)
ReqFListTight ==
    <<"d", "e", "f", " ", "f", "(", "a", ":", " ", "L", "i", "s", "t", "[",
      "i", "n", "t", ",", "s", "t", "r", "]", ",", " ", "b", ":", " ", "i",
      "n", "t", ")">>

\* add one
ReqProse == <<"a", "d", "d", " ", "o", "n", "e">>

\* the empty text
ReqEmpty == <<>>

\*  \n
ReqBlank == <<" ", "\n">>

\* x
DescX == <<"x">>

\* y
DescY == <<"y">>

\*  
DescBlank == <<" ">>

\* ambiguous
TypeAmbiguous == <<"a", "m", "b", "i", "g", "u", "o", "u", "s">>

\*  Boundary
TypeBoundaryUpper == <<" ", "B", "o", "u", "n", "d", "a", "r", "y">>

\* CRITICAL
SevCriticalUpper == <<"C", "R", "I", "T", "I", "C", "A", "L">>

\* low
SevLow == <<"l", "o", "w">>

\* Missing_Context
TypeMissingContextMixed ==
    <<"M", "i", "s", "s", "i", "n", "g", "_", "C", "o", "n", "t", "e", "x", "t">>

\* urgent
SevUrgent == <<"u", "r", "g", "e", "n", "t">>

\*  fixed 
FixText == <<" ", "f", "i", "x", "e", "d", " ">>

\* ~~~python\ndef f(a: int):\n return a\n~~~
CodeFIntFenced ==
    <<"~", "~", "~", "p", "y", "t", "h", "o", "n", "\n", "d", "e", "f",
      " ", "f", "(", "a", ":", " ", "i", "n", "t", ")", ":", "\n", " ",
      "r", "e", "t", "u", "r", "n", " ", "a", "\n", "~", "~", "~">>

\* ~~~python\ndef f(a: str):\n return a\n~~~
CodeFStrFenced ==
    <<"~", "~", "~", "p", "y", "t", "h", "o", "n", "\n", "d", "e", "f",
      " ", "f", "(", "a", ":", " ", "s", "t", "r", ")", ":", "\n", " ",
      "r", "e", "t", "u", "r", "n", " ", "a", "\n", "~", "~", "~">>

\* def f(a: str) :\n return a
CodeFStrSpacedColon ==
    <<"d", "e", "f", " ", "f", "(", "a", ":", " ", "s", "t", "r", ")", " ",
      ":", "\n", " ", "r", "e", "t", "u", "r", "n", " ", "a">>

\* ~~~\ndef f(a: str = str(1)):\n return a\n~~~
CodeFStrDefault ==
    <<"~", "~", "~", "\n", "d", "e", "f", " ", "f", "(", "a", ":", " ",
      "s", "t", "r", " ", "=", " ", "s", "t", "r", "(", "1", ")", ")", ":",
      "\n", " ", "r", "e", "t", "u", "r", "n", " ", "a", "\n", "~", "~", "~">>

\* ~~~python\ndef f(a: int, b):\n return a\n~~~
CodeFTwoFenced ==
    <<"~", "~", "~", "p", "y", "t", "h", "o", "n", "\n", "d", "e", "f",
      " ", "f", "(", "a", ":", " ", "i", "n", "t", ",", " ", "b", ")", ":",
      "\n", " ", "r", "e", "t", "u", "r", "n", " ", "a", "\n", "~", "~", "~">>

\* <code>def g(a: str): return g(a)</code>
CodeGStrTagged ==
    <<"<", "c", "o", "d", "e", ">", "d", "e", "f", " ", "g", "(", "a", ":",
      " ", "s", "t", "r", ")", ":", " ", "r", "e", "t", "u", "r", "n", " ",
      "g", "(", "a", ")", "<", "/", "c", "o", "d", "e", ">">>

\* {"code": "def f(a: str): return a"}
CodeFStrJson ==
    <<"{", "\"", "c", "o", "d", "e", "\"", ":", " ", "\"", "d", "e", "f",
      " ", "f", "(", "a", ":", " ", "s", "t", "r", ")", ":", " ", "r", "e",
      "t", "u", "r", "n", " ", "a", "\"", "}">>

\* ~~~\nimport os\n~~~\n~~~python\ndef f(a: int): pass\n~~~
CodeBothFences ==
    <<"~", "~", "~", "\n", "i", "m", "p", "o", "r", "t", " ", "o", "s",
      "\n", "~", "~", "~", "\n", "~", "~", "~", "p", "y", "t", "h", "o",
      "n", "\n", "d", "e", "f", " ", "f", "(", "a", ":", " ", "i", "n",
      "t", ")", ":", " ", "p", "a", "s", "s", "\n", "~", "~", "~">>

\* class A: pass\nx = 1; def f(a: int): pass
CodeClassFirst ==
    <<"c", "l", "a", "s", "s", " ", "A", ":", " ", "p", "a", "s", "s",
      "\n", "x", " ", "=", " ", "1", ";", " ", "d", "e", "f", " ", "f",
      "(", "a", ":", " ", "i", "n", "t", ")", ":", " ", "p", "a", "s", "s">>

\* ~~~\nno code\n~~~
CodeProseFence ==
    <<"~", "~", "~", "\n", "n", "o", " ", "c", "o", "d", "e", "\n", "~",
      "~", "~">>

\* I cannot help.
CodeNone ==
    <<"I", " ", "c", "a", "n", "n", "o", "t", " ", "h", "e", "l", "p", ".">>

\* the empty text
CodeEmptyResponse == <<>>

----------------------------------------------------------------------------
(* Texts built around a payload, one shape for each extraction method      *)

\* def f(a: int):\n return a
BodyFInt ==
    <<"d", "e", "f", " ", "f", "(", "a", ":", " ", "i", "n", "t", ")", ":",
      "\n", " ", "r", "e", "t", "u", "r", "n", " ", "a">>

\* def f(a: int): pass
BodyFIntPass ==
    <<"d", "e", "f", " ", "f", "(", "a", ":", " ", "i", "n", "t", ")", ":",
      " ", "p", "a", "s", "s">>

\* def f(a: str = str(1)):\n return a
BodyFStrDefault ==
    <<"d", "e", "f", " ", "f", "(", "a", ":", " ", "s", "t", "r", " ", "=",
      " ", "s", "t", "r", "(", "1", ")", ")", ":", "\n", " ", "r", "e", "t",
      "u", "r", "n", " ", "a">>

\* import os
BodyImportOs ==
    <<"i", "m", "p", "o", "r", "t", " ", "o", "s">>

\* def g(a: str): return g(a)
BodyGStr ==
    <<"d", "e", "f", " ", "g", "(", "a", ":", " ", "s", "t", "r", ")", ":",
      " ", "r", "e", "t", "u", "r", "n", " ", "g", "(", "a", ")">>

\* def f(a: str): return a
BodyFStr ==
    <<"d", "e", "f", " ", "f", "(", "a", ":", " ", "s", "t", "r", ")", ":",
      " ", "r", "e", "t", "u", "r", "n", " ", "a">>

\* def f(a: str) :\n return a
BodyFStrSpacedColon ==
    <<"d", "e", "f", " ", "f", "(", "a", ":", " ", "s", "t", "r", ")", " ",
      ":", "\n", " ", "r", "e", "t", "u", "r", "n", " ", "a">>

\* class A: pass\nx = 1; def f(a: int): pass
BodyClassFirst ==
    <<"c", "l", "a", "s", "s", " ", "A", ":", " ", "p", "a", "s", "s", "\n",
      "x", " ", "=", " ", "1", ";", " ", "d", "e", "f", " ", "f", "(", "a",
      ":", " ", "i", "n", "t", ")", ":", " ", "p", "a", "s", "s">>

\* python
LabelPython ==
    <<"p", "y", "t", "h", "o", "n">>

\* Python
LabelPythonCapital ==
    <<"P", "y", "t", "h", "o", "n">>

\* js
LabelJs ==
    <<"j", "s">>

\* a fenced block with the given info string
Fenced(label, payload) == FENCE \o label \o <<"\n">> \o payload \o <<"\n">> \o FENCE

\* <code>payload</code>
Tagged(payload) == CODE_OPEN \o payload \o CODE_CLOSE

\* <code_deliverable>{"code": "payload"}</code_deliverable>
Deliverable(payload) ==
    DELIVERABLE_OPEN \o <<"{">> \o CODE_KEY \o <<":", " ", "\"">> \o payload
        \o <<"\"", "}">> \o DELIVERABLE_CLOSE

\* a text of one shape: rank is the position in ExtractionMethods of the
\* method the shape is meant for
Piece(rank, text, payload) == [rank |-> rank, text |-> text, payload |-> payload]

ExtractionPieces ==
    {Piece(1, Fenced(LabelPython, BodyFInt), BodyFInt),
     Piece(1, Fenced(LabelPythonCapital, BodyFIntPass), BodyFIntPass),
     Piece(2, Fenced(<<>>, BodyFStrDefault), BodyFStrDefault),
     Piece(2, Fenced(LabelJs, BodyImportOs), BodyImportOs),
     Piece(3, Tagged(BodyGStr), BodyGStr),
     Piece(4, Deliverable(BodyFStr), BodyFStr),
     Piece(5, BodyFStrSpacedColon, BodyFStrSpacedColon),
     Piece(6, BodyClassFirst, BodyClassFirst)}

\* two pieces on consecutive lines
TwoPieces(a, b) == a.text \o <<"\n">> \o b.text

\* texts no method recovers code from
NoCodeTexts == {CodeNone, CodeProseFence, CodeEmptyResponse}

\* the texts the role-level specification hands to extract_code_multilayer
ExtractorProbeTexts ==
    {a.text : a \in ExtractionPieces}
    \cup {TwoPieces(a, b) : a, b \in ExtractionPieces}
    \cup NoCodeTexts

----------------------------------------------------------------------------
(* Backend responses                                                       *)

\* one entry of the "issues" member
Item(description, type, severity) ==
    [description |-> description, issue_type |-> ABSENT, type |-> type,
     evidence |-> ABSENT, location |-> ABSENT, severity |-> severity,
     clarifying_questions |-> <<>>, suggestion |-> ABSENT]

ItemX == Item(DescX, TypeAmbiguous, SevCriticalUpper)

ItemY == [Item(DescY, ABSENT, SevLow) EXCEPT !.issue_type = TypeBoundaryUpper,
                                             !.suggestion = DescX]

ItemUrgent == Item(DescX, TypeMissingContextMixed, SevUrgent)

ItemNullSeverity == Item(DescY, NULL, NULL)

ItemNoDescription == Item(ABSENT, TypeAmbiguous, SevLow)

ItemEmptyDescription == Item(<<>>, TypeAmbiguous, SevLow)

ItemBlankDescription == Item(DescBlank, ABSENT, ABSENT)

\* Analyzer response documents
AnalysisDoc(raw, decision, issues, normalized_requirement, signature) ==
    [json |-> "dict", raw |-> raw, decision |-> decision, issues |-> issues,
     normalized_requirement |-> normalized_requirement,
     original_function_signature |-> signature]

AnalysisInvalid == [AnalysisDoc("not json", ABSENT, <<>>, ABSENT, ABSENT) EXCEPT !.json = "invalid"]

AnalysisNonDict == [AnalysisDoc("[]", ABSENT, <<>>, ABSENT, ABSENT) EXCEPT !.json = "nondict"]

AnalysisNullDecision == AnalysisDoc("decision null", NULL, <<ItemX>>, ABSENT, ReqFInt)

\* decision members of the analyzer documents
DecReady == <<"R", "e", "a", "d", "y">>

DecNeedsCorrection == NEEDS_CORRECTION

\* the responses the Analyzer backend gives in a run
AnalyzerResponses ==
    {AnalysisInvalid, AnalysisNonDict, AnalysisNullDecision,
     AnalysisDoc("ready", DecReady, <<>>, ReqFIntDoc, ReqFInt),
     AnalysisDoc("needs, no issue left", DecNeedsCorrection, <<ItemNoDescription>>, ABSENT, ReqGInt),
     AnalysisDoc("issue, copy", DecNeedsCorrection, <<ItemX>>, ABSENT, ReqFInt),
     AnalysisDoc("issue, no signature", DecNeedsCorrection, <<ItemX, ItemY>>, ABSENT, ABSENT),
     AnalysisDoc("ready with issue, rewritten", DecReady, <<ItemY>>, ReqGInt, ReqGInt)}

\* the responses the role-level specification gives the Analyzer
AnalyzerProbeResponses ==
    {AnalysisInvalid, AnalysisNonDict}
    \cup {AnalysisDoc("doc", decision, issues, normalized_requirement, signature) :
            decision \in {ABSENT, NULL, DecReady, DecNeedsCorrection},
            issues \in {<<>>, <<ItemX>>, <<ItemNoDescription, ItemEmptyDescription>>,
                        <<ItemX, ItemX>>, <<ItemBlankDescription, ItemY>>,
                        <<ItemUrgent, ItemNullSeverity>>},
            normalized_requirement \in {ABSENT, NULL, ReqGInt},
            signature \in {ABSENT, ReqFInt}}

\* Corrector response documents
CorrectionDoc(raw, improved_requirement, applied_fixes, signature) ==
    [json |-> "dict", raw |-> raw, improved_requirement |-> improved_requirement,
     applied_fixes |-> applied_fixes, open_questions |-> <<>>,
     original_function_signature |-> signature]

CorrectionInvalid == [CorrectionDoc("not json", ABSENT, <<>>, ABSENT) EXCEPT !.json = "invalid"]

CorrectionNonDict == [CorrectionDoc("[]", ABSENT, <<>>, ABSENT) EXCEPT !.json = "nondict"]

\* the responses the Corrector backend gives in a run
CorrectorResponses ==
    {CorrectionInvalid, CorrectionNonDict,
     CorrectionDoc("two parameters", ReqFTwo, <<FixText>>, ReqFInt),
     CorrectionDoc("placeholder", ReqCandInt, <<FixText>>, ReqFInt),
     CorrectionDoc("renamed", ReqGInt, <<FixText, <<>>>>, ReqGInt),
     CorrectionDoc("documented", ReqFIntDoc, <<FixText>>, ABSENT),
     CorrectionDoc("blank", ReqBlank, <<>>, ABSENT)}

\* the responses the role-level specification gives the Corrector
CorrectorProbeResponses ==
    {CorrectionInvalid, CorrectionNonDict}
    \cup {CorrectionDoc("doc", improved_requirement, <<FixText, <<>>, DescBlank>>, signature) :
            improved_requirement \in {ABSENT, NULL, ReqFInt, ReqFIntPadded, ReqFIntDoc, ReqFStr,
                                      ReqFTwo, ReqGInt, ReqCandInt, ReqFAny, ReqFList,
                                      ReqFListTight, ReqProse, ReqEmpty},
            signature \in {ABSENT, NULL}}

\* def f(a: str):\n return f (a): code that calls itself
BodyFStrRecursive ==
    <<"d", "e", "f", " ", "f", "(", "a", ":", " ", "s", "t", "r", ")", ":",
      "\n", " ", "r", "e", "t", "u", "r", "n", " ", "f", " ", "(", "a", ")">>

CodeFStrRecursive == Fenced(LabelPython, BodyFStrRecursive)

\* the responses the Writer backend gives in a run
WriterResponses == {CodeFIntFenced, CodeFStrFenced, CodeNone}

\* the responses the role-level specification gives the Writer
WriterProbeResponses ==
    {CodeFIntFenced, CodeFStrFenced, CodeFStrSpacedColon, CodeFStrDefault, CodeFTwoFenced,
     CodeGStrTagged, CodeFStrJson, CodeBothFences, CodeClassFirst, CodeProseFence,
     CodeNone, CodeEmptyResponse, CodeFStrRecursive}

\* the requirements handed to run
InputRequirements == {ReqFIntPadded, ReqEmpty}

\* the requirements the role-level specification hands to the roles
ProbeRequirements ==
    {ReqFInt, ReqFIntPadded, ReqFIntDoc, ReqFStr, ReqFTwo, ReqGInt, ReqCandInt, ReqFAny,
     ReqFList, ReqFListTight, ReqFListTab, ReqFTupleParen, ReqProse, ReqEmpty}

----------------------------------------------------------------------------
(* RequirementCodegenOrchestrator.run                                      *)

\* the largest iteration budget (max_iterations) the model runs with
MaxBudget == 2

\* the budgets the constructor is given: _resolve_iteration_budget returns an
\* explicit budget unchanged, whatever its sign
Budgets == (-1)..MaxBudget

VARIABLES
    pc,                 \* where run stands: "loop", "correct", "write", "done", "raised";
                        \* "roles" in the role-level specification, "harness" in
                        \* the specification of the evaluation harness
    requirement,        \* the requirement handed to run
    max_iterations,     \* self.max_iterations
    iteration,          \* the loop variable of run
    history,            \* the trace under construction
    current_requirement,
    analyzer_snapshot,  \* <<>> for None, else <<AnalyzerOutput>>
    correction_count,
    original_function_signature,
    loop_exit,          \* how the round loop was left: "none", "ready", "degenerate", "exhausted"
    output,             \* <<>> until run returns, then <<CodeGenerationOutput>>
    error,              \* the exception that left run, "" when there is none
    calls,              \* the role invocations so far, each with the backend's response
    max_retries,        \* generate_code_with_codegen: the number of attempts allowed
    attempt,            \* its loop variable
    outcomes,           \* what generate_code_from_requirement gave each attempt so far
    returned            \* <<>> until it returns, then <<(code, correction_iterations)>>

vars == <<pc, requirement, max_iterations, iteration, history, current_requirement,
          analyzer_snapshot, correction_count, original_function_signature, loop_exit,
          output, error, calls, max_retries, attempt, outcomes, returned>>

\* the state of the evaluation harness
harness_vars == <<max_retries, attempt, outcomes, returned>>

\* no call of generate_code_with_codegen is under way
HarnessIdle ==
    /\ max_retries = 0
    /\ attempt = 1
    /\ outcomes = <<>>
    /\ returned = <<>>

\* one role invocation: the arguments, the backend's response and the outcome
Call(role, requirement_arg, issues, signature, response, result) ==
    [role |-> role, requirement |-> requirement_arg, issues |-> issues,
     signature |-> signature, response |-> response, result |-> result]

\* HistoryEntry as it would be if the record kept the first issue only
HistoryEntryFirstIssue(iter, snapshot) ==
    [iteration  |-> iter,
     decision   |-> snapshot.decision,
     issues     |-> [k \in 1..(IF snapshot.issues = <<>> THEN 0 ELSE 1) |->
                        AsDict(snapshot.issues[k])],
     normalized_requirement |-> snapshot.normalized_requirement,
     analyzer_raw_json |-> snapshot.raw_json,
     original_function_signature |-> snapshot.original_function_signature,
     correction |-> <<>>,
     corrector_raw_json |-> "",
     corrector_original_function_signature |-> <<>>]

\* HistoryEntry as it would be with rounds counted from 0
HistoryEntryFromZero(iter, snapshot) ==
    [iteration  |-> iter - 1,
     decision   |-> snapshot.decision,
     issues     |-> [k \in 1..Len(snapshot.issues) |-> AsDict(snapshot.issues[k])],
     normalized_requirement |-> snapshot.normalized_requirement,
     analyzer_raw_json |-> snapshot.raw_json,
     original_function_signature |-> snapshot.original_function_signature,
     correction |-> <<>>,
     corrector_raw_json |-> "",
     corrector_original_function_signature |-> <<>>]

\* the record run appends to history after an analysis
HistoryEntry(iter, snapshot) ==
    [iteration  |-> iter,
     decision   |-> snapshot.decision,
     issues     |-> [k \in 1..Len(snapshot.issues) |-> AsDict(snapshot.issues[k])],
     normalized_requirement |-> snapshot.normalized_requirement,
     analyzer_raw_json |-> snapshot.raw_json,
     original_function_signature |-> snapshot.original_function_signature,
     correction |-> <<>>,
     corrector_raw_json |-> "",
     corrector_original_function_signature |-> <<>>]

\* the place in calls of the record that closes the first of two runs on one
\* instance; 0 while the first run is under way
RunStart ==
    IF \E k \in 1..Len(calls) : calls[k].role = "run"
    THEN CHOOSE k \in 1..Len(calls) : calls[k].role = "run"
    ELSE 0

\* the backend gives response to the next call of role: any response in a
\* first run, and in a second run the response it gave at the same place of
\* the first
Replayed(role, response) ==
    \/ RunStart = 0
    \/ /\ Len(calls) + 1 - RunStart < RunStart
       /\ calls[Len(calls) + 1 - RunStart].role = role
       /\ calls[Len(calls) + 1 - RunStart].response = response

\* the state at the head of the round loop
Init ==
    /\ pc = "loop"
    /\ requirement \in InputRequirements
    /\ max_iterations \in Budgets
    /\ iteration = 1
    /\ history = <<>>
    /\ current_requirement = requirement
    /\ analyzer_snapshot = <<>>
    /\ correction_count = 0
    /\ original_function_signature = <<>>
    /\ loop_exit = "none"
    /\ output = <<>>
    /\ error = ""
    /\ calls = <<>>
    /\ HarnessIdle

\* ExitAfter as it would be without the break on a ready analysis
ExitAfterWithoutBreak(snapshot) ==
    IF snapshot.issues # <<>> \/ snapshot.decision = "ready" THEN "none"
    ELSE "degenerate"

\* the exit of the round loop an analysis leads to
ExitAfter(snapshot) ==
    IF snapshot.decision = "ready" /\ snapshot.issues = <<>> THEN "ready"
    ELSE IF snapshot.issues # <<>> THEN "none"
    ELSE "degenerate"

\* CapturedSignature as it would be without the test of the round number
CapturedSignatureAnyRound(iter, reported, known) ==
    IF reported # <<>> THEN reported ELSE known

\* "Capture original function signature from the first analyzer run": the known
\* signature after an analysis of round iter that reports the text reported
CapturedSignature(iter, reported, known) ==
    IF iter = 1 /\ reported # <<>> THEN reported ELSE known

\* the loop body once self.analyzer.process has returned result, or raised
Analyzed(response, result) ==
    /\ calls' = Append(calls, Call("analyzer", current_requirement, <<>>, <<>>,
                                   response, result))
    /\ IF result.raised
       THEN /\ pc' = "raised"
            /\ error' = result.error
            /\ UNCHANGED <<analyzer_snapshot, original_function_signature,
                           history, loop_exit>>
       ELSE /\ analyzer_snapshot' = result.out
            /\ original_function_signature' =
                   CapturedSignature(iteration, result.out[1].original_function_signature,
                                     original_function_signature)
            /\ history' = Append(history, HistoryEntry(iteration, result.out[1]))
            /\ loop_exit' = ExitAfter(result.out[1])
            /\ pc' = IF ExitAfter(result.out[1]) = "none" THEN "correct" ELSE "write"
            /\ error' = error

\* Analyze as it would be with a loop that runs one round too many
AnalyzeBeyondBudget ==
    /\ pc = "loop"
    /\ iteration <= max_iterations + 1
    /\ \E response \in AnalyzerResponses :
         /\ Replayed("analyzer", response)
         /\ Analyzed(response, AnalyzerProcess(current_requirement, history, response))
    /\ UNCHANGED <<requirement, max_iterations, iteration, current_requirement,
                   correction_count, output>>
    /\ UNCHANGED harness_vars

\* one pass of the loop body up to the break or the call of the Corrector
Analyze ==
    /\ pc = "loop"
    /\ iteration <= max_iterations
    /\ \E response \in AnalyzerResponses :
         /\ Replayed("analyzer", response)
         /\ Analyzed(response, AnalyzerProcess(current_requirement, history, response))
    /\ UNCHANGED <<requirement, max_iterations, iteration, current_requirement,
                   correction_count, output>>
    /\ UNCHANGED harness_vars

\* WithCorrection as it would be if the round's record kept the raw answer of
\* the Corrector only
WithCorrectionRawOnly(entry, correction) ==
    [entry EXCEPT !.corrector_raw_json = correction.raw_json,
                  !.corrector_original_function_signature =
                      correction.original_function_signature]

\* history[-1] with the correction recorded in it
WithCorrection(entry, correction) ==
    [entry EXCEPT !.correction = <<[applied_fixes  |-> correction.applied_fixes,
                                    open_questions |-> correction.open_questions]>>,
                  !.corrector_raw_json = correction.raw_json,
                  !.corrector_original_function_signature =
                      correction.original_function_signature]

\* the loop body once _correct_requirement has returned result, or raised
Corrected(response, result) ==
    /\ calls' = Append(calls, Call("corrector", analyzer_snapshot[1].normalized_requirement,
                                   analyzer_snapshot[1].issues, original_function_signature,
                                   response, result))
    /\ IF result.raised
       THEN /\ pc' = "raised"
            /\ error' = result.error
            /\ UNCHANGED <<correction_count, current_requirement, history, iteration>>
       ELSE /\ correction_count' = correction_count + 1
            /\ current_requirement' = result.out[1].improved_requirement
            /\ history' = [history EXCEPT ![Len(history)] = WithCorrection(@, result.out[1])]
            /\ iteration' = iteration + 1
            /\ pc' = "loop"
            /\ error' = error

\* the rest of the loop body: _correct_requirement and the update of history[-1]
Correct ==
    /\ pc = "correct"
    /\ \E response \in CorrectorResponses :
         /\ Replayed("corrector", response)
         /\ Corrected(response,
                      CorrectorProcess(analyzer_snapshot[1].normalized_requirement,
                                       analyzer_snapshot[1].issues,
                                       original_function_signature, response))
    /\ UNCHANGED <<requirement, max_iterations, analyzer_snapshot,
                   original_function_signature, loop_exit, output>>
    /\ UNCHANGED harness_vars

\* the else branch of the for loop, and the assertion that follows it
Exhausted ==
    /\ pc = "loop"
    /\ iteration > max_iterations
    /\ loop_exit' = "exhausted"
    /\ IF analyzer_snapshot = <<>>
       THEN pc' = "raised" /\ error' = "AssertionError"
       ELSE pc' = "write" /\ error' = error
    /\ UNCHANGED <<requirement, max_iterations, iteration, history, current_requirement,
                   analyzer_snapshot, correction_count, original_function_signature,
                   output, calls>>
    /\ UNCHANGED harness_vars

\* FinalRequirement as it would be if the Analyzer's text were always taken
FinalRequirementNormalized == analyzer_snapshot[1].normalized_requirement

\* final_requirement of run
FinalRequirement ==
    IF current_requirement # <<>> THEN current_requirement
    ELSE analyzer_snapshot[1].normalized_requirement

\* Written as it would be if run asked the Writer again after an empty code
WrittenWithRetry(response, result) ==
    /\ calls' = Append(calls, Call("writer", FinalRequirement, <<>>,
                                   original_function_signature, response, result))
    /\ output' = <<[result.out[1] EXCEPT !.trace = history,
                                         !.correction_iterations = correction_count]>>
    /\ pc' = IF result.out[1].code = <<>> THEN "write" ELSE "done"
    /\ error' = error

\* Written as it would be if run returned what it has when the Writer fails
WrittenWithFallback(response, result) ==
    /\ calls' = Append(calls, Call("writer", FinalRequirement, <<>>,
                                   original_function_signature, response, result))
    /\ output' = <<[finalized_requirement |-> FinalRequirement,
                    code        |-> IF result.raised THEN <<>> ELSE result.out[1].code,
                    tests       |-> <<>>,
                    assumptions |-> <<>>,
                    trace       |-> history,
                    correction_iterations |-> correction_count]>>
    /\ pc' = "done"
    /\ error' = error

\* the end of run once self.writer.process has returned result, or raised
Written(response, result) ==
    /\ calls' = Append(calls, Call("writer", FinalRequirement, <<>>,
                                   original_function_signature, response, result))
    /\ IF result.raised
       THEN /\ pc' = "raised"
            /\ error' = result.error
            /\ output' = output
       ELSE /\ output' = <<[result.out[1] EXCEPT !.trace = history,
                                                 !.correction_iterations = correction_count]>>
            /\ pc' = "done"
            /\ error' = error

\* the call of the Writer and the return of run
Write ==
    /\ pc = "write"
    /\ analyzer_snapshot # <<>>
    /\ \E response \in WriterResponses :
         /\ Replayed("writer", response)
         /\ Written(response,
                    WriterProcess(FinalRequirement, original_function_signature, response))
    /\ UNCHANGED <<requirement, max_iterations, iteration, history, current_requirement,
                   analyzer_snapshot, correction_count, original_function_signature,
                   loop_exit>>
    /\ UNCHANGED harness_vars

\* what a role's process yields when generate_response raises: process has no
\* handler around the call, so the exception of the backend leaves it
BackendFailure == Raised("BackendError")

\* the response recorded for a call the backend did not answer
NoAnalysis == [AnalysisDoc("", ABSENT, <<>>, ABSENT, ABSENT) EXCEPT !.json = "none"]

NoCorrection == [CorrectionDoc("", ABSENT, <<>>, ABSENT) EXCEPT !.json = "none"]

\* the loop body when the backend call of the Analyzer raises
AnalyzeFails ==
    /\ pc = "loop"
    /\ iteration <= max_iterations
    /\ Replayed("analyzer", NoAnalysis)
    /\ Analyzed(NoAnalysis, BackendFailure)
    /\ UNCHANGED <<requirement, max_iterations, iteration, current_requirement,
                   correction_count, output>>
    /\ UNCHANGED harness_vars

\* the loop body when the backend call of the Corrector raises
CorrectFails ==
    /\ pc = "correct"
    /\ Replayed("corrector", NoCorrection)
    /\ Corrected(NoCorrection, BackendFailure)
    /\ UNCHANGED <<requirement, max_iterations, analyzer_snapshot,
                   original_function_signature, loop_exit, output>>
    /\ UNCHANGED harness_vars

\* the end of run when the backend call of the Writer raises
WriteFails ==
    /\ pc = "write"
    /\ analyzer_snapshot # <<>>
    /\ Replayed("writer", <<>>)
    /\ Written(<<>>, BackendFailure)
    /\ UNCHANGED <<requirement, max_iterations, iteration, history, current_requirement,
                   analyzer_snapshot, correction_count, original_function_signature,
                   loop_exit>>
    /\ UNCHANGED harness_vars

Next ==
    \/ Analyze
    \/ Correct
    \/ Exhausted
    \/ Write
    \/ AnalyzeFails
    \/ CorrectFails
    \/ WriteFails

Spec == Init /\ [][Next]_vars

----------------------------------------------------------------------------
(* The roles on their own: process of each role applied to a requirement   *)
(* and a backend response drawn from the probe sets                        *)

\* what a finished run gave its caller: the result, or the exception
RunResult == IF pc = "raised" THEN Raised(error) ELSE Returned(output[1])

\* RunAgain as it would be if the trace were a member of the instance
RunAgainKeepingTrace ==
    /\ pc \in {"done", "raised"}
    /\ RunStart = 0
    /\ calls' = Append(calls, Call("run", requirement, <<>>, <<>>, <<>>, RunResult))
    /\ pc' = "loop"
    /\ iteration' = 1
    /\ current_requirement' = requirement
    /\ analyzer_snapshot' = <<>>
    /\ correction_count' = 0
    /\ original_function_signature' = <<>>
    /\ loop_exit' = "none"
    /\ output' = <<>>
    /\ error' = ""
    /\ UNCHANGED <<requirement, max_iterations, history>>
    /\ UNCHANGED harness_vars

\* a second call of run on the instance, with the same requirement, once the
\* first has returned or raised: the locals of run are initialised anew, and
\* of the instance run reads max_iterations only
RunAgain ==
    /\ pc \in {"done", "raised"}
    /\ RunStart = 0
    /\ calls' = Append(calls, Call("run", requirement, <<>>, <<>>, <<>>, RunResult))
    /\ pc' = "loop"
    /\ iteration' = 1
    /\ history' = <<>>
    /\ current_requirement' = requirement
    /\ analyzer_snapshot' = <<>>
    /\ correction_count' = 0
    /\ original_function_signature' = <<>>
    /\ loop_exit' = "none"
    /\ output' = <<>>
    /\ error' = ""
    /\ UNCHANGED <<requirement, max_iterations>>
    /\ UNCHANGED harness_vars

\* two runs on one instance, the second with the backend responses of the first
RerunNext ==
    \/ Analyze
    \/ Correct
    \/ Exhausted
    \/ Write
    \/ AnalyzeFails
    \/ CorrectFails
    \/ WriteFails
    \/ RunAgain

\* the largest iteration budget of an instance that is run twice
MaxRerunBudget == 1

RerunInit == Init /\ max_iterations <= MaxRerunBudget

RerunSpec == RerunInit /\ [][RerunNext]_vars

RoleInit ==
    /\ pc = "roles"
    /\ requirement = <<>>
    /\ max_iterations = 0
    /\ iteration = 1
    /\ history = <<>>
    /\ current_requirement = <<>>
    /\ analyzer_snapshot = <<>>
    /\ correction_count = 0
    /\ original_function_signature = <<>>
    /\ loop_exit = "none"
    /\ output = <<>>
    /\ error = ""
    /\ calls = <<>>
    /\ HarnessIdle

RoleUnchanged ==
    UNCHANGED <<pc, requirement, max_iterations, iteration, history, current_requirement,
                analyzer_snapshot, correction_count, original_function_signature,
                loop_exit, output, error, max_retries, attempt, outcomes, returned>>

\* RequirementAnalyzer.process
AnalyzerCall ==
    /\ pc = "roles"
    /\ calls = <<>>
    /\ \E req \in ProbeRequirements, response \in AnalyzerProbeResponses :
         calls' = <<Call("analyzer", req, <<>>, <<>>, response,
                         AnalyzerProcess(req, <<>>, response))>>
    /\ RoleUnchanged

\* RequirementCorrector.process
CorrectorCall ==
    /\ pc = "roles"
    /\ calls = <<>>
    /\ \E req \in ProbeRequirements, response \in CorrectorProbeResponses :
         calls' = <<Call("corrector", req, <<>>, <<>>, response,
                         CorrectorProcess(req, <<>>, <<>>, response))>>
    /\ RoleUnchanged

\* RequirementCodeWriter.process
WriterCall ==
    /\ pc = "roles"
    /\ calls = <<>>
    /\ \E req \in ProbeRequirements, response \in WriterProbeResponses :
         calls' = <<Call("writer", req, <<>>, <<>>, response,
                         WriterProcess(req, <<>>, response))>>
    /\ RoleUnchanged

\* extract_code_multilayer, the module-level copy of the Writer's extraction
ExtractCall ==
    /\ pc = "roles"
    /\ calls = <<>>
    /\ \E response \in ExtractorProbeTexts :
         calls' = <<Call("extractor", <<>>, <<>>, <<>>, response,
                         Returned(ExtractCodeMultilayer(response)))>>
    /\ RoleUnchanged

\* _validate_signature_preserved of the Corrector and of the Writer, each
\* applied to the same pair of texts
ValidateCall ==
    /\ pc = "roles"
    /\ calls = <<>>
    /\ \E req \in ProbeRequirements, text \in ProbeRequirements :
         calls' = <<Call("validate", req, <<>>, <<>>, text,
                         Returned([corrector |-> CorrectorValidateSignaturePreserved(req, text),
                                   writer    |-> WriterValidateSignaturePreserved(req, text)]))>>
    /\ RoleUnchanged

RoleNext == AnalyzerCall \/ CorrectorCall \/ WriterCall \/ ExtractCall \/ ValidateCall

RoleSpec == RoleInit /\ [][RoleNext]_vars

----------------------------------------------------------------------------
(* eval_scripts/code_generation.py: is_valid_code and                      *)
(* generate_code_with_codegen                                              *)

\* invalid_tags
InvalidTags ==
    {<<"<", "c", "o", "d", "e", "_", "d", "e", "l", "i", "v", "e", "r", "a", "b", "l", "e", ">">>,
     <<"<", "/", "c", "o", "d", "e", "_", "d", "e", "l", "i", "v", "e", "r", "a", "b", "l", "e", ">">>,
     <<"<", "f", "i", "n", "a", "l", "_", "r", "e", "q", "u", "i", "r", "e", "m", "e", "n", "t", ">">>,
     <<"<", "/", "f", "i", "n", "a", "l", "_", "r", "e", "q", "u", "i", "r", "e", "m", "e", "n", "t", ">">>,
     <<"<", "a", "n", "a", "l", "y", "s", "i", "s", ">">>,
     <<"<", "/", "a", "n", "a", "l", "y", "s", "i", "s", ">">>,
     <<"<", "c", "o", "r", "r", "e", "c", "t", "i", "o", "n", ">">>,
     <<"<", "/", "c", "o", "r", "r", "e", "c", "t", "i", "o", "n", ">">>}

\* is_valid_code: the first member of the pair it returns
IsValidCode(code) ==
    IF code = <<>> \/ Strip(code) = <<>> THEN FALSE
    ELSE IF \E tag \in InvalidTags : Contains(Lower(code), tag) THEN FALSE
    ELSE IF StartsWith(Strip(code), <<"{">>)
            /\ Contains(code, <<"\"", "c", "o", "d", "e", "\"">>)
    THEN FALSE
    ELSE IF ~Contains(code, <<"d", "e", "f", " ">>) THEN FALSE
    ELSE TRUE

\* the pair generate_code_with_codegen returns
Pair(code, correction_iterations) ==
    [code |-> code, correction_iterations |-> correction_iterations]

\* blank code
HarnessCodeBlank == <<" ", "\n">>

\* x = 1: code without a function
HarnessCodeNoDef == <<"x", " ", "=", " ", "1">>

\* <Analysis>def f(): pass: a response that was not parsed
HarnessCodeTagged ==
    <<"<", "A", "n", "a", "l", "y", "s", "i", "s", ">", "d", "e", "f", " ", "f", "(", ")",
      ":", " ", "p", "a", "s", "s">>

\* {"code": "def f(): pass"}, after a line break: a payload that was not parsed
HarnessCodeJson ==
    <<"\n", "{", "\"", "c", "o", "d", "e", "\"", ":", " ", "\"", "d", "e", "f", " ", "f",
      "(", ")", ":", " ", "p", "a", "s", "s", "\"", "}">>

\* the codes the pipeline hands the harness
HarnessCodes ==
    {<<>>, HarnessCodeBlank, HarnessCodeNoDef, HarnessCodeTagged, HarnessCodeJson,
     BodyFInt, BodyFStr}

\* what one call of generate_code_from_requirement gives: the result of run,
\* of which the harness reads code and correction_iterations, or an exception
PipelineOutcomes ==
    {Raised("Exception")}
    \cup {Returned(Pair(code, n)) : code \in HarnessCodes, n \in 0..1}

\* the largest number of attempts the harness is allowed
MaxRetries == 3

HarnessInit ==
    /\ pc = "harness"
    /\ requirement = <<>>
    /\ max_iterations = 0
    /\ iteration = 1
    /\ history = <<>>
    /\ current_requirement = <<>>
    /\ analyzer_snapshot = <<>>
    /\ correction_count = 0
    /\ original_function_signature = <<>>
    /\ loop_exit = "none"
    /\ output = <<>>
    /\ error = ""
    /\ calls = <<>>
    /\ max_retries \in 0..MaxRetries
    /\ attempt = 1
    /\ outcomes = <<>>
    /\ returned = <<>>

\* Attempted as it would be if the last attempt were retried once more
AttemptedOnceMore(outcome) ==
    /\ outcomes' = Append(outcomes, outcome)
    /\ IF ~outcome.raised /\ IsValidCode(outcome.out[1].code)
       THEN /\ returned' = <<Pair(outcome.out[1].code, outcome.out[1].correction_iterations)>>
            /\ attempt' = attempt
       ELSE IF attempt <= max_retries
       THEN /\ attempt' = attempt + 1
            /\ returned' = returned
       ELSE /\ returned' = <<Pair(<<>>, 0)>>
            /\ attempt' = attempt

\* one pass of the loop of generate_code_with_codegen, given the outcome of
\* its call of the pipeline
Attempted(outcome) ==
    /\ outcomes' = Append(outcomes, outcome)
    /\ IF ~outcome.raised /\ IsValidCode(outcome.out[1].code)
       THEN /\ returned' = <<Pair(outcome.out[1].code, outcome.out[1].correction_iterations)>>
            /\ attempt' = attempt
       ELSE IF attempt < max_retries
       THEN /\ attempt' = attempt + 1
            /\ returned' = returned
       ELSE /\ returned' = <<Pair(<<>>, 0)>>
            /\ attempt' = attempt

\* the loop body: for attempt in range(1, max_retries + 1)
Attempt ==
    /\ pc = "harness"
    /\ returned = <<>>
    /\ attempt <= max_retries
    /\ \E outcome \in PipelineOutcomes : Attempted(outcome)
    /\ UNCHANGED <<max_retries, pc, requirement, max_iterations, iteration, history,
                   current_requirement, analyzer_snapshot, correction_count,
                   original_function_signature, loop_exit, output, error, calls>>

\* the return after the loop, reached when the loop has no pass to make
NoAttemptLeft ==
    /\ pc = "harness"
    /\ returned = <<>>
    /\ attempt > max_retries
    /\ returned' = <<Pair(<<>>, 0)>>
    /\ UNCHANGED <<max_retries, attempt, outcomes, pc, requirement, max_iterations,
                   iteration, history, current_requirement, analyzer_snapshot,
                   correction_count, original_function_signature, loop_exit, output,
                   error, calls>>

HarnessNext == Attempt \/ NoAttemptLeft

HarnessSpec == HarnessInit /\ [][HarnessNext]_vars

----------------------------------------------------------------------------
(* Properties.  calls is the record of the role invocations of a behaviour: *)
(* under Spec the invocations of one run in order, under RoleSpec a single  *)
(* invocation of one role.                                                  *)

\* the positions in calls of the invocations of a role
CallsOf(role) == {k \in 1..Len(calls) : calls[k].role = role}

\* the value a role invocation returned
OutOf(k) == calls[k].result.out[1]

\* C1: whatever the budget and the backend responses, run calls the Analyzer
\* at most max_iterations times before it goes on to the Writer, and the trace
\* of the returned result has at most max_iterations records.
C1_RoundsWithinBudget ==
    /\ Cardinality(CallsOf("analyzer")) <= (IF max_iterations > 0 THEN max_iterations ELSE 0)
    /\ (pc = "write" \/ CallsOf("writer") # {}) =>
           Cardinality(CallsOf("analyzer")) <= max_iterations
    /\ output # <<>> => Len(output[1].trace) <= max_iterations

\* a run that used its whole budget of two rounds and returned
C1_Witness ==
    /\ pc = "done"
    /\ loop_exit = "exhausted"
    /\ max_iterations = 2
    /\ Cardinality(CallsOf("analyzer")) = 2
    /\ Len(output[1].trace) = 2

\* C2: every result the Analyzer's process returns, from a parsed document or
\* from the parse-failure fallback, has decision "ready" exactly when its list
\* of issues is empty, whatever the document's decision member says.
C2_ReadyIffNoIssues ==
    \A k \in CallsOf("analyzer") :
        ~calls[k].result.raised =>
            (OutOf(k).decision = "ready" <=> OutOf(k).issues = <<>>)

\* a document that says ready and carries an issue: the result needs repair
C2_Witness ==
    \E k \in CallsOf("analyzer") :
        /\ calls[k].response.json = "dict"
        /\ calls[k].response.decision = DecReady
        /\ ~calls[k].result.raised
        /\ OutOf(k).issues # <<>>
        /\ OutOf(k).decision = "needs_clarification"

\* the two signatures differ in parameter count, or at some position in the
\* types both declare (compared without spaces)
ContractDiffers(a, b) ==
    \/ Len(a.params) # Len(b.params)
    \/ \E i \in 1..Len(a.params) :
          /\ a.params[i].type # <<>>
          /\ b.params[i].type # <<>>
          /\ RemoveSpaces(a.params[i].type) # RemoveSpaces(b.params[i].type)

\* the Corrector invocation k was given a revision whose signature and the
\* input requirement's signature both parse
RevisionParsed(k) ==
    /\ calls[k].response.json = "dict"
    /\ Truthy(calls[k].response.improved_requirement)
    /\ ExtractFunctionSignature(calls[k].requirement).found
    /\ ExtractFunctionSignature(calls[k].response.improved_requirement).found

\* the result of the Corrector invocation k is a revert
Reverted(k) ==
    /\ ~calls[k].result.raised
    /\ Len(OutOf(k).applied_fixes) = 1
    /\ OutOf(k).applied_fixes[1].kind = "signature_rejected"

\* C3: when the signature of the backend's revision differs from the signature
\* of the input requirement in parameter count or in a declared parameter
\* type, the Corrector returns the input requirement unchanged, character for
\* character, and applied_fixes is the single entry that reports the rejection.
C3_RejectedRevisionReverts ==
    \A k \in CallsOf("corrector") :
        (/\ RevisionParsed(k)
         /\ ContractDiffers(ExtractFunctionSignature(calls[k].requirement),
                            ExtractFunctionSignature(calls[k].response.improved_requirement)))
        => /\ Reverted(k)
           /\ OutOf(k).improved_requirement = calls[k].requirement

\* a revision that changes a declared type, rejected: the input comes back
\* with the blanks around it that strip() would have removed
C3_Witness ==
    \E k \in CallsOf("corrector") :
        /\ RevisionParsed(k)
        /\ Len(ExtractFunctionSignature(calls[k].requirement).params)
              = Len(ExtractFunctionSignature(calls[k].response.improved_requirement).params)
        /\ ContractDiffers(ExtractFunctionSignature(calls[k].requirement),
                           ExtractFunctionSignature(calls[k].response.improved_requirement))
        /\ Reverted(k)
        /\ OutOf(k).improved_requirement = calls[k].requirement
        /\ calls[k].requirement # Strip(calls[k].requirement)

\* the contract of b is the contract of a: the same name unless one of them
\* is the placeholder, the same number of parameters, the same declared types
SameContract(a, b) ==
    /\ a.name = b.name \/ a.name = CANDIDATE \/ b.name = CANDIDATE
    /\ ~ContractDiffers(a, b)

\* C4: the requirement handed to the Writer has the contract of the requirement
\* passed to run: the same function name (the placeholder candidate apart), the
\* same parameter count and the same declared parameter types.
C4_ContractPreserved ==
    \A k \in CallsOf("writer") :
        (/\ ExtractFunctionSignature(requirement).found
         /\ ExtractFunctionSignature(calls[k].requirement).found)
        => SameContract(ExtractFunctionSignature(requirement),
                        ExtractFunctionSignature(calls[k].requirement))

\* the backend returned a text to call k
Answered(k) == calls[k].result # BackendFailure

\* C5: no role's process raises, whatever text the backend returns.
C5_RolesNeverRaise ==
    \A k \in 1..Len(calls) : Answered(k) => ~calls[k].result.raised

\* the last invocation of a role
LastCallOf(role) == MaxOf(CallsOf(role))

\* C6: the requirement handed to the Writer is the output of the last
\* Corrector call when a repair ran, and otherwise the normalized_requirement
\* of the last Analyzer result.
C6_SynthesisGetsMostRecent ==
    \A k \in CallsOf("writer") :
        calls[k].requirement =
            IF CallsOf("corrector") # {}
            THEN OutOf(LastCallOf("corrector")).improved_requirement
            ELSE OutOf(LastCallOf("analyzer")).normalized_requirement

\* the text run holds as current_requirement when the loop is left
LastWritten ==
    IF CallsOf("corrector") # {}
    THEN OutOf(LastCallOf("corrector")).improved_requirement
    ELSE requirement

\* C6 as amended: the requirement handed to the Writer is the output of the
\* last Corrector call when a repair ran and otherwise the requirement passed
\* to run, unless that text is empty: then it is the normalized_requirement of
\* the last Analyzer result.
C6_SynthesisGetsCurrentRequirement ==
    \A k \in CallsOf("writer") :
        calls[k].requirement =
            IF LastWritten # <<>> THEN LastWritten
            ELSE OutOf(LastCallOf("analyzer")).normalized_requirement

\* no repair ran and the Writer is handed the text passed to run, which is not
\* the Analyzer's normalized text
C6_Witness ==
    \E k \in CallsOf("writer") :
        /\ CallsOf("corrector") = {}
        /\ calls[k].requirement = requirement
        /\ calls[k].requirement # OutOf(LastCallOf("analyzer")).normalized_requirement

\* the invocations that are handed the known signature
SignatureUsers == CallsOf("corrector") \cup CallsOf("writer")

\* the Analyzer calls before position k whose result reports a signature
ReportedBefore(k) ==
    {j \in CallsOf("analyzer") : j < k /\ OutOf(j).original_function_signature # <<>>}

\* C7: the signature reported by the first Analyzer round that reports one is
\* the signature handed to every later Corrector call and to the Writer.
C7_FirstReportedSignatureLocked ==
    \A k \in SignatureUsers :
        ReportedBefore(k) # {} =>
            calls[k].signature = OutOf(MinOf(ReportedBefore(k))).original_function_signature

\* C7 as amended: the signature the Analyzer reports in round 1, the empty
\* text when it reports none, is the signature handed to every Corrector call
\* and to the Writer; what a later round reports never replaces it.
C7_RoundOneSignatureLocked ==
    \A k \in SignatureUsers :
        calls[k].signature = OutOf(1).original_function_signature

\* round 1 reports a signature, a later round another one, and the Writer is
\* handed the one of round 1
C7_Witness ==
    \E k \in CallsOf("writer") : \E j \in CallsOf("analyzer") :
        /\ 1 < j
        /\ j < k
        /\ OutOf(1).original_function_signature # <<>>
        /\ OutOf(j).original_function_signature # <<>>
        /\ OutOf(j).original_function_signature # OutOf(1).original_function_signature
        /\ calls[k].signature = OutOf(1).original_function_signature

\* the Corrector call k was a revert and another Analyzer round followed it
RevertThenAnalysis(k) ==
    /\ Reverted(k)
    /\ k + 1 <= Len(calls)
    /\ calls[k + 1].role = "analyzer"

\* C8: after a revert the next Analyzer round is handed the text that was
\* analysed in the round of the rejected repair.
C8_RevertRestoresAnalysedText ==
    \A k \in CallsOf("corrector") :
        RevertThenAnalysis(k) => calls[k + 1].requirement = calls[k - 1].requirement

\* C8 as amended: after a revert the next Analyzer round is handed the text
\* the rejected Corrector call was given, which is the normalized_requirement
\* of that round's Analyzer result.
C8_RevertRestoresRepairInput ==
    \A k \in CallsOf("corrector") :
        RevertThenAnalysis(k) =>
            /\ calls[k + 1].requirement = calls[k].requirement
            /\ calls[k + 1].requirement = OutOf(k - 1).normalized_requirement

\* a revert after which the Analyzer is handed neither the rejected revision
\* nor the text it analysed before
C8_Witness ==
    \E k \in CallsOf("corrector") :
        /\ RevertThenAnalysis(k)
        /\ calls[k + 1].requirement # Strip(calls[k].response.improved_requirement)
        /\ calls[k + 1].requirement # calls[k - 1].requirement

\* the Writer call k extracted code with as many parameters as the
\* requirement declares and a declared type that differs
TypeMismatchExtracted(k) ==
    /\ ExtractCodeMultilayer(calls[k].response).code # <<>>
    /\ ExtractFunctionSignature(calls[k].requirement).found
    /\ ExtractFunctionSignature(ExtractCodeMultilayer(calls[k].response).code).found
    /\ Len(ExtractFunctionSignature(calls[k].requirement).params)
          = Len(ExtractFunctionSignature(ExtractCodeMultilayer(calls[k].response).code).params)
    /\ ContractDiffers(ExtractFunctionSignature(calls[k].requirement),
                       ExtractFunctionSignature(ExtractCodeMultilayer(calls[k].response).code))

\* the header of the code has the type of the requirement wherever the
\* requirement declares one
HeaderHasDeclaredTypes(req, cod) ==
    /\ cod.found
    /\ Len(cod.params) = Len(req.params)
    /\ \A i \in 1..Len(req.params) :
          req.params[i].type # <<>> =>
              RemoveSpaces(cod.params[i].type) = RemoveSpaces(req.params[i].type)

\* C9: when the Writer extracts code with the requirement's parameter count
\* and a declared type that differs, the header of the code it returns has the
\* requirement's declared types, and the signature check passes on it.
C9_TypeMismatchRepaired ==
    \A k \in CallsOf("writer") :
        TypeMismatchExtracted(k) =>
            /\ ~calls[k].result.raised
            /\ HeaderHasDeclaredTypes(ExtractFunctionSignature(calls[k].requirement),
                                      ExtractFunctionSignature(OutOf(k).code))
            /\ WriterValidateSignaturePreserved(calls[k].requirement, OutOf(k).code).ok

\* no method of the Writer recovers code from the text the backend returned
\* to call k
NothingExtracted(k) ==
    /\ Answered(k)
    /\ TryExtractMarkdownPython(calls[k].response) = <<>>
    /\ TryExtractMarkdownAny(calls[k].response) = <<>>
    /\ TryExtractSimpleTags(calls[k].response) = <<>>
    /\ TryExtractLegacyJson(calls[k].response) = <<>>
    /\ TryExtractFunctionDefinition(calls[k].response) = <<>>
    /\ TryExtractAnyCode(calls[k].response) = <<>>

\* C10: when no extraction method recovers code from the Writer backend's
\* text, the Writer's result has the empty code and a non-empty list of
\* assumptions, and run returns a result with the trace and the repair count.
C10_NoCodeStillReturns ==
    \A k \in CallsOf("writer") :
        NothingExtracted(k) =>
            /\ ~calls[k].result.raised
            /\ OutOf(k).code = <<>>
            /\ OutOf(k).assumptions # <<>>
            /\ pc = "done"
            /\ error = ""
            /\ output # <<>>
            /\ output[1].code = <<>>
            /\ output[1].assumptions # <<>>
            /\ output[1].trace = history
            /\ Len(output[1].trace) = Cardinality(CallsOf("analyzer"))
            /\ output[1].correction_iterations = Cardinality(CallsOf("corrector"))

\* a run with a repair whose Writer backend returned prose only
C10_Witness ==
    \E k \in CallsOf("writer") :
        /\ NothingExtracted(k)
        /\ pc = "done"
        /\ output[1].code = <<>>
        /\ output[1].correction_iterations = 1
        /\ Len(output[1].trace) = 1

\* the result extract_code_multilayer owes for a text in which the piece w is
\* the one of the method tried first: the method of w and, for the methods
\* that cut the payload out of its wrapping, exactly the payload
OwedTo(k, w) ==
    /\ ~calls[k].result.raised
    /\ OutOf(k).method = ExtractionMethods[w.rank]
    /\ Contains(OutOf(k).code, w.payload)
    /\ w.rank <= 4 => OutOf(k).code = w.payload

\* the piece of the method tried first; of two pieces of one method, the
\* first in the text
Winner(a, b) == IF b.rank < a.rank THEN b ELSE a

FirstRoundClean ==
    /\ calls # <<>>
    /\ calls[1].role = "analyzer"
    /\ ~calls[1].result.raised
    /\ OutOf(1).issues = <<>>

\* C12: when the first Analyzer round reports no issues its decision is ready,
\* the loop is left after that one round, the Corrector is never called, and
\* the Writer is called once: when its backend answers, run then returns a
\* result whose trace has one record and whose correction_iterations is 0.
C12_CleanFirstRoundGoesToSynthesis ==
    FirstRoundClean =>
        /\ OutOf(1).decision = "ready"
        /\ CallsOf("analyzer") = {1}
        /\ CallsOf("corrector") = {}
        /\ Len(history) = 1
        /\ correction_count = 0
        /\ \/ pc = "write" /\ CallsOf("writer") = {}
           \/ pc = "raised" /\ CallsOf("writer") = {2} /\ ~Answered(2)
           \/ /\ pc = "done"
              /\ CallsOf("writer") = {2}
              /\ Answered(2)
              /\ Len(calls) = 2
              /\ Len(output[1].trace) = 1
              /\ output[1].trace[1].decision = "ready"
              /\ output[1].correction_iterations = 0

\* a run whose first analysis parsed a document without issues, and returned
C12_Witness ==
    /\ FirstRoundClean
    /\ calls[1].response.json = "dict"
    /\ pc = "done"
    /\ CallsOf("writer") = {2}
    /\ Len(output[1].trace) = 1

\* the Writer is called at most once, nothing is called after it, and a run
\* has returned exactly when the backend has answered its Writer call
SynthesisOnceAndLast ==
    /\ Cardinality(CallsOf("writer")) <= 1
    /\ \A k \in CallsOf("writer") : k = Len(calls)
    /\ pc = "done" <=> \E k \in CallsOf("writer") : Answered(k)
    /\ pc = "done" => output # <<>> /\ output[1].code = OutOf(Len(calls)).code

\* the run starts with an analysis, and an analysis is followed by a repair
\* when it reports issues and by the synthesis when it reports none
AnalysisLeads ==
    /\ calls # <<>> => calls[1].role = "analyzer"
    /\ \A k \in CallsOf("analyzer") :
          k < Len(calls) =>
              /\ ~calls[k].result.raised
              /\ calls[k + 1].role =
                     IF OutOf(k).issues # <<>> THEN "corrector" ELSE "writer"

\* C13: the role invocations of a run follow Analyzing -> {Repairing ->
\* Analyzing}* -> Synthesizing -> Done: the Writer is called once, as the last
\* step and also when it yields empty code, it is entered only from an
\* Analyzer call, and every Corrector call is followed by an Analyzer call.
C13_RepairAlwaysReanalysed ==
    /\ SynthesisOnceAndLast
    /\ AnalysisLeads
    /\ \A k \in CallsOf("writer") : calls[k - 1].role = "analyzer"
    /\ \A k \in CallsOf("corrector") :
          k < Len(calls) => calls[k + 1].role = "analyzer"

\* the round a call belongs to: the number of Analyzer calls up to it
RoundOf(k) == Cardinality({j \in CallsOf("analyzer") : j <= k})

\* C13 as amended: the role invocations of a run follow Analyzing ->
\* {Repairing -> Analyzing}* -> Synthesizing -> Done, except that the Repair of
\* the last round the budget allows is followed by the synthesis, without
\* another analysis.  The Writer is called at most once, as the last step, once
\* in a run that returns, and is not called again when it yields empty code; it
\* is entered from an Analyzer call that reports no issues or from the
\* Corrector call of round max_iterations; every Corrector call of an earlier
\* round is followed by an Analyzer call.
C13_RepairReanalysedWithinBudget ==
    /\ SynthesisOnceAndLast
    /\ AnalysisLeads
    /\ \A k \in CallsOf("writer") :
          \/ calls[k - 1].role = "analyzer" /\ OutOf(k - 1).issues = <<>>
          \/ calls[k - 1].role = "corrector" /\ RoundOf(k - 1) = max_iterations
    /\ \A k \in CallsOf("corrector") :
          /\ calls[k - 1].role = "analyzer"
          /\ k < Len(calls) =>
                 /\ ~calls[k].result.raised
                 /\ calls[k + 1].role =
                        IF RoundOf(k) < max_iterations THEN "analyzer" ELSE "writer"

\* a run of two rounds, each with a repair, whose Writer is entered from the
\* second repair, yields empty code and is not called again
C13_Witness ==
    /\ pc = "done"
    /\ Len(calls) = 5
    /\ calls[2].role = "corrector"
    /\ calls[3].role = "analyzer"
    /\ calls[4].role = "corrector"
    /\ calls[5].role = "writer"
    /\ output[1].code = <<>>

\* the budget allows a round, and each of the max_iterations rounds has run
\* and reported issues
AllRoundsReportIssues ==
    /\ max_iterations >= 1
    /\ Cardinality(CallsOf("analyzer")) = max_iterations
    /\ \A k \in CallsOf("analyzer") :
          ~calls[k].result.raised /\ OutOf(k).issues # <<>>

\* the backend returned a text to every call made so far
AllAnswered == \A k \in 1..Len(calls) : Answered(k)

\* C14: when each of the max_iterations Analyzer rounds reports issues and the
\* backend answers every call, run does not fail: it calls the Writer with the
\* output of the last Corrector call and returns a result whose trace has
\* max_iterations records.
C14_ExhaustionSynthesizes ==
    (AllRoundsReportIssues /\ AllAnswered) =>
        /\ pc # "raised"
        /\ error = ""
        /\ \A k \in CallsOf("writer") :
              /\ calls[k].requirement = OutOf(LastCallOf("corrector")).improved_requirement
              /\ pc = "done"
              /\ Len(output[1].trace) = max_iterations

\* the i-th record of the trace has round index i
TraceIndexed == \A i \in 1..Len(history) : history[i].iteration = i

\* a step keeps every record of the trace in its place; it changes no record
\* but the last one, and that one only while its own round is running, by
\* adding the round's correction to what the analysis wrote
TraceStep ==
    /\ Len(history') >= Len(history)
    /\ \A i \in 1..Len(history) :
          /\ history'[i].iteration = history[i].iteration
          /\ history'[i] # history[i] =>
                 /\ i = Len(history)
                 /\ i = iteration
                 /\ history[i].correction = <<>>
                 /\ history'[i] = [history[i] EXCEPT
                        !.correction = history'[i].correction,
                        !.corrector_raw_json = history'[i].corrector_raw_json,
                        !.corrector_original_function_signature =
                            history'[i].corrector_original_function_signature]

\* C15: the trace is ordered by round index and append-only: the i-th record
\* has round index i, no step removes or reorders a record, and no step of a
\* later round changes the record of an earlier round; the trace of the
\* returned result is that list.
C15_TraceOrderedAppendOnly ==
    /\ [](TraceIndexed /\ (output # <<>> => output[1].trace = history))
    /\ [][TraceStep]_vars

\* two rounds on the trace, the record of round 1 with its correction
C15_Witness ==
    /\ Len(history) = 2
    /\ history[1].iteration = 1
    /\ history[1].correction # <<>>
    /\ history[2].iteration = 2
    /\ history[2].correction # <<>>
    /\ pc = "done"
    /\ output[1].trace = history

\* both texts of the pair k declare a function, with different names of which
\* neither is the placeholder
NamesDiffer(k) ==
    /\ ExtractFunctionSignature(calls[k].requirement).found
    /\ ExtractFunctionSignature(calls[k].response).found
    /\ ExtractFunctionSignature(calls[k].requirement).name
          # ExtractFunctionSignature(calls[k].response).name
    /\ ExtractFunctionSignature(calls[k].requirement).name # CANDIDATE
    /\ ExtractFunctionSignature(calls[k].response).name # CANDIDATE

\* C16: the signature check of the Corrector and the signature check of the
\* Writer give the same verdict on every pair of texts, and both fail when the
\* two function names differ and neither is the placeholder candidate.
C16_SameVerdict ==
    \A k \in CallsOf("validate") :
        /\ OutOf(k).corrector.ok = OutOf(k).writer.ok
        /\ NamesDiffer(k) => ~OutOf(k).corrector.ok /\ ~OutOf(k).writer.ok

\* the Writer call k extracted code whose header has another number of
\* parameters than the requirement declares
CountMismatchExtracted(k) ==
    /\ ExtractCodeMultilayer(calls[k].response).code # <<>>
    /\ ExtractFunctionSignature(calls[k].requirement).found
    /\ ExtractFunctionSignature(ExtractCodeMultilayer(calls[k].response).code).found
    /\ Len(ExtractFunctionSignature(calls[k].requirement).params)
          # Len(ExtractFunctionSignature(ExtractCodeMultilayer(calls[k].response).code).params)

\* C17: when the extracted code's parameter count differs from the
\* requirement's, the Writer returns the code as extracted, without a rewrite,
\* and its result carries a note of the mismatch in assumptions.
C17_CountMismatchNoted ==
    \A k \in CallsOf("writer") :
        CountMismatchExtracted(k) =>
            /\ ~calls[k].result.raised
            /\ OutOf(k).code = ExtractCodeMultilayer(calls[k].response).code
            /\ OutOf(k).assumptions # <<>>

\* C17 as amended: when the extracted code's parameter count differs from the
\* requirement's, the Writer returns the code as extracted, without a rewrite,
\* and its result carries no note: assumptions is empty, the mismatch only
\* reaches the log.
C17_CountMismatchOnlyLogged ==
    \A k \in CallsOf("writer") :
        CountMismatchExtracted(k) =>
            /\ ~calls[k].result.raised
            /\ OutOf(k).code = ExtractCodeMultilayer(calls[k].response).code
            /\ OutOf(k).assumptions = <<>>
            /\ OutOf(k).finalized_requirement = calls[k].requirement

\* code of two parameters for a requirement of one, returned as it was written
C17_Witness ==
    \E k \in CallsOf("writer") :
        /\ CountMismatchExtracted(k)
        /\ calls[k].requirement = ReqFInt
        /\ calls[k].response = CodeFTwoFenced
        /\ OutOf(k).code = ExtractCodeMultilayer(CodeFTwoFenced).code
        /\ OutOf(k).assumptions = <<>>

\* C18: the issue list of a result the Analyzer returns never holds the same
\* issue twice, also when the backend's document lists an issue twice.
C18_IssuesDeduplicated ==
    \A k \in CallsOf("analyzer") :
        ~calls[k].result.raised =>
            \A i, j \in 1..Len(OutOf(k).issues) :
                i # j => OutOf(k).issues[i] # OutOf(k).issues[j]

\* the seven categories of IssueCategory
IssueCategories ==
    {AMBIGUITY, INCONSISTENCY, INCOMPLETENESS, CONFLICT, MISSING_CONTEXT,
     UNDERSPECIFIED, BOUNDARY}

\* the entries of the document of call k that carry a description, in order
Described(k) == SelectSeq(calls[k].response.issues, LAMBDA item : Truthy(item.description))

\* a member as the text the sanitizers start from: the empty text when the
\* member is missing, null or empty
RawText(v) == IF Truthy(v) THEN v ELSE <<>>

\* the category owed to a raw text: the text without the blanks around it and
\* in lower case when that is a category, else ambiguity
CategoryOwed(raw) ==
    IF Lower(Strip(raw)) \in IssueCategories THEN Lower(Strip(raw)) ELSE AMBIGUITY

\* the severity owed to a raw text: high for critical, the text itself for
\* low, medium and high, else medium
SeverityOwed(raw) ==
    IF Lower(Strip(raw)) \in {HIGH, CRITICAL} THEN HIGH
    ELSE IF Lower(Strip(raw)) = LOW THEN LOW
    ELSE MEDIUM

\* C19: every issue of a result the Analyzer returns has one of the seven
\* categories and a severity among low, medium and high; the raw strings are
\* read without regard to case, an unrecognised or missing category becomes
\* ambiguity, an unrecognised or missing severity medium, and critical high.
C19_CategoryAndSeverityClosed ==
    \A k \in CallsOf("analyzer") :
        (~calls[k].result.raised /\ calls[k].response.json = "dict") =>
            /\ Len(OutOf(k).issues) = Len(Described(k))
            /\ \A i \in 1..Len(OutOf(k).issues) :
                  /\ OutOf(k).issues[i].issue_type \in IssueCategories
                  /\ OutOf(k).issues[i].severity \in {LOW, MEDIUM, HIGH}
                  /\ OutOf(k).issues[i].issue_type =
                         CategoryOwed(RawText(IF Truthy(Described(k)[i].issue_type)
                                              THEN Described(k)[i].issue_type
                                              ELSE Described(k)[i].type))
                  /\ OutOf(k).issues[i].severity =
                         SeverityOwed(RawText(Described(k)[i].severity))

\* a document with the severities urgent and null and the categories
\* Missing_Context and null: the result has medium twice, missing_context
\* and ambiguity
C19_Witness ==
    \E k \in CallsOf("analyzer") :
        /\ calls[k].response.json = "dict"
        /\ calls[k].response.issues = <<ItemUrgent, ItemNullSeverity>>
        /\ ~calls[k].result.raised
        /\ OutOf(k).issues[1].issue_type = MISSING_CONTEXT
        /\ OutOf(k).issues[1].severity = MEDIUM
        /\ OutOf(k).issues[2].issue_type = AMBIGUITY
        /\ OutOf(k).issues[2].severity = MEDIUM

\* C20: every issue of a result the Analyzer returns has a non-empty
\* description: the entries of the document without a description, or with an
\* empty one, are left out of the issue list.
C20_DescriptionsNonEmpty ==
    \A k \in CallsOf("analyzer") :
        ~calls[k].result.raised =>
            /\ \A i \in 1..Len(OutOf(k).issues) : OutOf(k).issues[i].description # <<>>
            /\ calls[k].response.json = "dict" =>
                   Len(OutOf(k).issues) <= Len(Described(k))


\* C21: a backend call that raises during an Analyzer, Corrector or Writer step
\* ends the run with that exception: the failed call is the last call of the
\* run (it is not retried and no further role is invoked), run has raised the
\* error of the backend, and no result is returned.
C21_BackendFailurePropagates ==
    \A k \in 1..Len(calls) :
        ~Answered(k) =>
            /\ k = Len(calls)
            /\ pc = "raised"
            /\ error = BackendFailure.error
            /\ output = <<>>

\* a run whose second round was analysed and whose second repair failed in the
\* backend: two records in the trace, one repair counted, nothing returned
C21_Witness ==
    /\ Len(calls) = 4
    /\ calls[4].role = "corrector"
    /\ ~Answered(4)
    /\ Len(history) = 2
    /\ correction_count = 1
    /\ pc = "raised"
    /\ output = <<>>


\* the places of code where a call of name starts: the matches of
\* \bname\s*\( , the header of a definition of name among them
CallSites(code, name) ==
    {i \in 1..Len(code) :
        /\ i = 1 \/ code[i - 1] \notin WordChars
        /\ OccursAt(code, i, name)
        /\ SkipWhile(code, i + Len(name), WS) <= Len(code)
        /\ code[SkipWhile(code, i + Len(name), WS)] = "("}

\* the Writer's repair gave the code extracted for call k a header with a name
\* other than the one the code had
HeaderRenamed(k) ==
    LET code == ExtractCodeMultilayer(calls[k].response).code
        req  == ExtractFunctionSignature(calls[k].requirement)
        cod  == ExtractFunctionSignature(code)
    IN  /\ Answered(k)
        /\ ~calls[k].result.raised
        /\ code # <<>>
        /\ req.found
        /\ cod.found
        /\ req.name # cod.name
        /\ ~WriterValidateSignaturePreserved(calls[k].requirement, code).ok
        /\ FixSignatureInCode(calls[k].requirement, code).some
        /\ OutOf(k).code # code
        /\ ExtractFunctionSignature(OutOf(k).code).name = req.name

\* C22: when the Writer's repair rewrites the header with a name other than
\* the one the code had, no call of the old name remains in the code the
\* Writer returns, also when the requirement's name is the placeholder.
C22_NoCallOfOldNameRemains ==
    \A k \in CallsOf("writer") :
        HeaderRenamed(k) =>
            CallSites(OutOf(k).code,
                      ExtractFunctionSignature(
                          ExtractCodeMultilayer(calls[k].response).code).name) = {}


\* a type without its whitespace: spaces, tabs and line breaks
WithoutWhitespace(type) == SelectSeq(type, LAMBDA c : c \notin WS)

\* the parameter positions at which both signatures declare a type and the
\* types differ in more than whitespace
TypesDifferAt(a, b) ==
    {i \in 1..Len(a.params) :
        /\ a.params[i].type # <<>>
        /\ b.params[i].type # <<>>
        /\ WithoutWhitespace(a.params[i].type) # WithoutWhitespace(b.params[i].type)}

\* C23: when the comparison of two signatures reaches the parameter types
\* (both found, the names accepted, the counts equal), it fails on the types
\* exactly when some position at which both sides declare a type has types
\* that differ in more than whitespace (spaces, tabs, line breaks), in the
\* Corrector and in the Writer.
C23_TypesComparedModuloWhitespace ==
    \A k \in CallsOf("validate") :
        LET a == ExtractFunctionSignature(calls[k].requirement)
            b == ExtractFunctionSignature(calls[k].response)
        IN  (a.found /\ b.found /\ Len(a.params) = Len(b.params)) =>
                /\ OutOf(k).writer.ok <=> TypesDifferAt(a, b) = {}
                /\ OutOf(k).corrector.reason # "name" =>
                       (OutOf(k).corrector.ok <=> TypesDifferAt(a, b) = {})


\* the number of characters of text that are in the set chars
CountOf(text, chars) == Cardinality({i \in 1..Len(text) : text[i] \in chars})

\* every bracket opened in the type is closed in it: the type was neither cut
\* at a comma inside its brackets nor cut short
WholeType(type) == CountOf(type, {"(", "[", "{"}) = CountOf(type, {")", "]", "}"})

\* C24: the signature extracted from a text has one parameter for each piece
\* between commas at bracket depth 0: the parameters a: List[int, str], b: int
\* give exactly the two parameters a and b, and no extracted type is a piece
\* of a container type, cut inside its brackets.
C24_ContainerTypesKeptWhole ==
    \A k \in CallsOf("validate") :
        LET sig == ExtractFunctionSignature(calls[k].requirement)
        IN  /\ calls[k].requirement = ReqFList =>
                   /\ sig.found
                   /\ Len(sig.params) = 2
                   /\ sig.params[1] = [name |-> <<"a">>,
                                       type |-> <<"L", "i", "s", "t", "[", "i", "n", "t",
                                                  ",", " ", "s", "t", "r", "]">>]
                   /\ sig.params[2] = [name |-> <<"b">>, type |-> <<"i", "n", "t">>]
            /\ sig.found => \A i \in 1..Len(sig.params) : WholeType(sig.params[i].type)


\* the records of a trace that carry a correction sub-record
Corrections(trace) == {i \in 1..Len(trace) : trace[i].correction # <<>>}

\* C25: in every result run returns, correction_iterations is the number of
\* trace records that carry a correction; it is len(trace) - 1 when the loop
\* ended on a ready analysis and len(trace) = max_iterations when the budget
\* was exhausted, and only the last record of the trace can lack a correction.
C25_RepairCountMatchesTrace ==
    pc = "done" =>
        /\ output[1].correction_iterations = Cardinality(Corrections(output[1].trace))
        /\ output[1].correction_iterations = correction_count
        /\ loop_exit = "ready" =>
               output[1].correction_iterations = Len(output[1].trace) - 1
        /\ loop_exit = "exhausted" =>
               /\ output[1].correction_iterations = Len(output[1].trace)
               /\ Len(output[1].trace) = max_iterations
        /\ \A i \in 1..(Len(output[1].trace) - 1) : i \in Corrections(output[1].trace)

\* a returned run of two rounds whose loop ended on a ready analysis: one
\* repair, carried by the first record, and a last record without one
C25_Witness ==
    /\ pc = "done"
    /\ loop_exit = "ready"
    /\ Len(output[1].trace) = 2
    /\ output[1].correction_iterations = 1
    /\ Corrections(output[1].trace) = {1}


\* run has left the round loop
LoopLeft == pc \in {"write", "done"} \/ CallsOf("writer") # {}

\* C26: with the Analyzer's own decision the branch of run for a decision other
\* than ready with an empty issue list is never taken: the round loop is left
\* either on an analysis that is ready and has no issues, or because the
\* budget is exhausted.
C26_DegenerateBranchUnreachable ==
    /\ loop_exit # "degenerate"
    /\ \A k \in CallsOf("analyzer") :
          ~calls[k].result.raised => ExitAfter(OutOf(k)) # "degenerate"
    /\ LoopLeft =>
          \/ /\ loop_exit = "ready"
             /\ analyzer_snapshot[1].decision = "ready"
             /\ analyzer_snapshot[1].issues = <<>>
          \/ /\ loop_exit = "exhausted"
             /\ iteration = max_iterations + 1
             /\ Cardinality(CallsOf("analyzer")) = max_iterations

\* the backend asked for a correction but none of its issues was kept: the
\* Analyzer returned ready, and the loop was left on the ready exit
C26_Witness ==
    /\ pc = "write"
    /\ loop_exit = "ready"
    /\ calls[Len(calls)].role = "analyzer"
    /\ calls[Len(calls)].response.decision = DecNeedsCorrection
    /\ calls[Len(calls)].response.issues # <<>>
    /\ OutOf(Len(calls)).issues = <<>>


\* C27: the assertion of run that the Analyzer ran at least once holds for
\* every budget the constructor accepts: run does not fail on it, and it does
\* not leave the round loop without an Analyzer call.
C27_AnalyzerRanAtLeastOnce ==
    /\ error # "AssertionError"
    /\ loop_exit # "none" => CallsOf("analyzer") # {}


\* the issues of a role invocation as a trace record holds them
Serialized(issues) == [i \in 1..Len(issues) |-> AsDict(issues[i])]

\* C28: the Corrector is invoked in a round exactly when the analysis of that
\* round has at least one issue, and the issue list it is given is the one
\* recorded in the trace record of that round; an analysis without issues is
\* never followed by a Corrector call.
C28_RepairIffIssuesAndSameList ==
    /\ \A k \in CallsOf("analyzer") :
          ~calls[k].result.raised =>
              /\ OutOf(k).issues # <<>> =>
                     /\ pc = "correct" \/ k < Len(calls)
                     /\ k < Len(calls) => calls[k + 1].role = "corrector"
              /\ OutOf(k).issues = <<>> =>
                     /\ pc # "correct"
                     /\ k < Len(calls) => calls[k + 1].role # "corrector"
    /\ \A k \in CallsOf("corrector") :
          /\ k > 1
          /\ calls[k - 1].role = "analyzer"
          /\ ~calls[k - 1].result.raised
          /\ calls[k].issues # <<>>
          /\ calls[k].issues = OutOf(k - 1).issues
          /\ RoundOf(k) <= Len(history)
          /\ history[RoundOf(k)].iteration = RoundOf(k)
          /\ history[RoundOf(k)].issues = Serialized(calls[k].issues)

\* the second round's analysis reported two issues and the Corrector was
\* invoked with them
C28_Witness ==
    /\ Len(calls) = 4
    /\ calls[4].role = "corrector"
    /\ Len(calls[4].issues) = 2
    /\ Len(history[2].issues) = 2


\* C29: a second run on the same instance, given the requirement and the
\* backend responses of the first, makes the calls the first run made, with
\* the same arguments and results, and ends as the first did: with the same
\* result, or the same exception.  The first run is a run on a fresh instance.
C29_SecondRunLikeFresh ==
    RunStart # 0 =>
        /\ \A j \in 1..(Len(calls) - RunStart) :
              j < RunStart /\ calls[RunStart + j] = calls[j]
        /\ pc \in {"done", "raised"} =>
              /\ Len(calls) - RunStart = RunStart - 1
              /\ RunResult = calls[RunStart].result

\* a second run that has returned after a round with a repair, as the first
\* did, which had locked a signature and replaced the requirement: the trace
\* and the repair count of the first run are not added to
C29_Witness ==
    /\ RunStart = 4
    /\ Len(calls) = 7
    /\ pc = "done"
    /\ calls[2].role = "corrector"
    /\ calls[3].signature # <<>>
    /\ calls[3].requirement # requirement
    /\ Len(output[1].trace) = 1
    /\ output[1].correction_iterations = 1
    /\ Returned(output[1]) = calls[4].result


\* the attempts whose code passes is_valid_code
ValidAttempts ==
    {k \in 1..Len(outcomes) : ~outcomes[k].raised /\ IsValidCode(outcomes[k].out[1].code)}

\* C30: generate_code_with_codegen runs the pipeline at most max_retries
\* times; an attempt whose code passes is_valid_code is the last one made, and
\* its code and correction_iterations are what is returned; without such an
\* attempt what is returned is ('', 0), and it is returned only once each of
\* the max_retries attempts gave invalid code or raised.
C30_RetriesBoundedFirstValidWins ==
    /\ Len(outcomes) <= max_retries
    /\ \A k \in ValidAttempts :
          /\ k = Len(outcomes)
          /\ returned = <<Pair(outcomes[k].out[1].code,
                               outcomes[k].out[1].correction_iterations)>>
    /\ (ValidAttempts = {} /\ returned # <<>>) =>
          /\ returned = <<Pair(<<>>, 0)>>
          /\ Len(outcomes) = max_retries
    /\ returned = <<>> =>
          /\ attempt = Len(outcomes) + 1
          /\ attempt <= max_retries \/ max_retries = 0

\* of three attempts allowed the first raised and the second gave valid code
\* after one repair: that code is returned, and no third attempt is made
C30_Witness ==
    /\ max_retries = 3
    /\ Len(outcomes) = 2
    /\ outcomes[1].raised
    /\ returned = <<Pair(BodyFStr, 1)>>

====
